---- MODULE Spec2Model ----
(***************************************************************************)
(* Printer session engine of iobroker.elegoo-centauri.                     *)
(*                                                                         *)
(* Two session implementations exist side by side in the repository:       *)
(*   MonitoringService  (src/lib/monitoring.js, started by the adapter of  *)
(*                       src/unnamed/part_002)                             *)
(*   MonitoringHandler  (src/unnamed/part_001, started by the adapter of   *)
(*                       src/main.js)                                      *)
(* One adapter process runs exactly one of them; "running" records which.  *)
(* The Node.js runtime is modelled by the table of live timers ("timers")  *)
(* and the table of transport handles ("sockets"); the objects' fields     *)
(* hold handles into these tables (0 is null).                             *)
(***************************************************************************)
EXTENDS Integers, Sequences, FiniteSets, TLC

\* ---- bounds of the model -------------------------------------------------
NumTimerIds == 4
NumSockets == 2
MaxRequestId == 3
MaxFailedAttempts == 3
MaxInflight == 1
MaxOverlap == 2
MaxSeconds == 130
MaxNegative == 3

\* ---- program constants ---------------------------------------------------
KeepAliveMs == 50000
DefaultReconnectInterval == 60
DefaultPollInterval == 10
CmdStatus == 0
CmdPause == 129
CmdCancel == 130
CmdResume == 131
CmdLight == 403

TimerIds == 1..NumTimerIds
SocketIds == 1..NumSockets

\* configured intervals in seconds (validated and defaulted by onReady)
ReconnectIntervals == {30, 60}
PollIntervals == {10}

NoTimer == [kind |-> "none", repeat |-> FALSE, delay |-> 0]
NoSocket == [readyState |-> "NONE", listeners |-> FALSE, opened |-> FALSE]

\* values Date.now() returns. The clock is held at one millisecond, the case
\* in which the timestamp part cannot tell two ids or two envelopes apart.
Timestamps == {1000}

Intents == {"pausePrint", "resumePrint", "cancelPrint", "toggleLightOn",
            "toggleLightOff", "requestStatus"}

VARIABLES
    running,          \* "none" | "service" | "handler": which session was created by onReady
    config,           \* adapter.config: [reconnectInterval, pollInterval]
    printerUp,        \* environment: the printer currently accepts connections
    timers,           \* runtime: live timers, handle -> [kind, repeat, delay]
    sockets,          \* runtime: transports, handle -> [readyState, listeners, opened]
    ws,               \* MonitoringService.ws
    reconnectTimer,   \* MonitoringService.reconnectTimer
    pollTimer,        \* MonitoringService.pollTimer
    keepAliveTimer,   \* MonitoringService.keepAliveTimer
    requestId,        \* MonitoringService.requestId
    isConnected,      \* MonitoringService.isConnected
    stopped,          \* MonitoringService.stop() has been called
    hWs,              \* MonitoringHandler.ws
    hPollTimer,       \* MonitoringHandler.pollTimer
    hReconnectTimer,  \* MonitoringHandler.reconnectTimer
    hDisconnected,    \* "no" | "connected" | "other": disconnect() was called, and in which state
    infoConnection,   \* last value written to the state info.connection
    sent,             \* frames transmitted by the handler that ran last
    lastRet,          \* return value of the intent that ran last ("none" otherwise)
    lastEvent,        \* the handler that ran last
    wasConnected,     \* whether the session was connected when that handler started
    failedAttempts,   \* consecutive attempts that closed without opening
    sentIds,          \* the RequestIDs transmitted so far in this process, in order
    tree,             \* the adapter's state tree: state id -> value last written
    handled,          \* what the message handler that ran last did
    hInflight,        \* MonitoringHandler: calls of _handleMessage that are suspended at an await
    hArrived,         \* MonitoringHandler: data of the status response that arrived last, <<>> before the first
    formatted,        \* the formatter call made last: [arg, time, seconds]
    stateChanged      \* the state change handled last and the acknowledged write its handler made

svcVars == <<ws, reconnectTimer, pollTimer, keepAliveTimer, requestId, isConnected, stopped>>
hndVars == <<hWs, hPollTimer, hReconnectTimer, hDisconnected>>
msgVars == <<tree, handled, hInflight, hArrived, formatted, stateChanged>>
vars == <<running, config, printerUp, timers, sockets, ws, reconnectTimer,
          pollTimer, keepAliveTimer, requestId, isConnected, stopped, hWs,
          hPollTimer, hReconnectTimer, hDisconnected, infoConnection, sent,
          lastRet, lastEvent, wasConnected, failedAttempts, sentIds, tree,
          handled, hInflight, hArrived, formatted, stateChanged>>

\* ---- runtime helpers -----------------------------------------------------

\* clearTimeout / clearInterval: a dead or null handle is ignored
ClearHandle(live, id) ==
    IF id \in TimerIds THEN [live EXCEPT ![id] = NoTimer] ELSE live

\* the set of timers of one kind that are pending in the runtime
Live(kind) == {i \in TimerIds : timers[i].kind = kind}

\* a transport is dropped from the table once it is closed and unreferenced
Collect(socks, ref) ==
    [s \in SocketIds |->
        IF socks[s].readyState = "CLOSED" /\ s # ref THEN NoSocket ELSE socks[s]]

FreeSockets(ref) == {s \in SocketIds : sockets[s].readyState = "NONE" /\ s # ref}
NewSocket(ref) == CHOOSE s \in FreeSockets(ref) : \A u \in FreeSockets(ref) : s <= u

IsOpen(socks, ref) == ref \in SocketIds /\ socks[ref].readyState = "OPEN"

\* ---- MonitoringService: timers -------------------------------------------

\* the timer fields of the service together with the runtime table
SvcTimers ==
    [live |-> timers, reconnectTimer |-> reconnectTimer,
     pollTimer |-> pollTimer, keepAliveTimer |-> keepAliveTimer]

FreeIds(t) ==
    {i \in TimerIds : t.live[i] = NoTimer
                      /\ i \notin {t.reconnectTimer, t.pollTimer, t.keepAliveTimer}}
FreshId(t) == CHOOSE i \in FreeIds(t) : \A j \in FreeIds(t) : i <= j

clearReconnect(t) ==
    IF t.reconnectTimer # 0
    THEN [t EXCEPT !.live = ClearHandle(t.live, t.reconnectTimer), !.reconnectTimer = 0]
    ELSE t

\* clearPolling that nulls the field without clearInterval
clearPolling_FieldOnly(t) == [t EXCEPT !.pollTimer = 0]

clearPolling(t) ==
    IF t.pollTimer # 0
    THEN [t EXCEPT !.live = ClearHandle(t.live, t.pollTimer), !.pollTimer = 0]
    ELSE t

clearKeepAlive(t) ==
    IF t.keepAliveTimer # 0
    THEN [t EXCEPT !.live = ClearHandle(t.live, t.keepAliveTimer), !.keepAliveTimer = 0]
    ELSE t

\* clearTimers that forgets the poll timer
clearTimers_SkipPolling(t) == clearKeepAlive(clearReconnect(t))

clearTimers(t) == clearKeepAlive(clearPolling(clearReconnect(t)))

ReconnectMs ==
    (IF config.reconnectInterval = 0 THEN DefaultReconnectInterval
     ELSE config.reconnectInterval) * 1000
PollMs ==
    (IF config.pollInterval = 0 THEN DefaultPollInterval
     ELSE config.pollInterval) * 1000

\* scheduleReconnect that clears the old timer and arms no new one
scheduleReconnect_ClearOnly(t) == clearReconnect(t)

scheduleReconnect(t) ==
    LET c == clearReconnect(t)
        id == FreshId(c)
    IN [c EXCEPT !.live[id] = [kind |-> "reconnect", repeat |-> FALSE, delay |-> ReconnectMs],
                 !.reconnectTimer = id]

\* startKeepAlive that arms the interval without clearKeepAlive
startKeepAlive_NoClear(t) ==
    LET id == FreshId(t)
    IN [t EXCEPT !.live[id] = [kind |-> "keepAlive", repeat |-> TRUE, delay |-> KeepAliveMs],
                 !.keepAliveTimer = id]

startKeepAlive(t) ==
    LET c == clearKeepAlive(t)
        id == FreshId(c)
    IN [c EXCEPT !.live[id] = [kind |-> "keepAlive", repeat |-> TRUE, delay |-> KeepAliveMs],
                 !.keepAliveTimer = id]

startPolling(t) ==
    LET c == clearPolling(t)
        id == FreshId(c)
    IN [c EXCEPT !.live[id] = [kind |-> "poll", repeat |-> TRUE, delay |-> PollMs],
                 !.pollTimer = id]

\* assigns the timer fields and the runtime table from t
SetSvcTimers(t) ==
    /\ timers' = t.live
    /\ reconnectTimer' = t.reconnectTimer
    /\ pollTimer' = t.pollTimer
    /\ keepAliveTimer' = t.keepAliveTimer

\* ---- MonitoringService: commands -----------------------------------------

IntentCmd(name) ==
    CASE name = "pausePrint" -> CmdPause
      [] name = "resumePrint" -> CmdResume
      [] name = "cancelPrint" -> CmdCancel
      [] name = "toggleLightOn" -> CmdLight
      [] name = "toggleLightOff" -> CmdLight
      [] name = "requestStatus" -> CmdStatus

IntentData(name) ==
    CASE name = "toggleLightOn" -> "{LightStatus:{SecondLight:true,RgbLight:[0,0,0]}}"
      [] name = "toggleLightOff" -> "{LightStatus:{SecondLight:false,RgbLight:[0,0,0]}}"
      [] OTHER -> "{}"

\* generateRequestId that builds the id from the timestamp alone
generateRequestId_NoCounter(rid, now) == [rid |-> rid + 1, id |-> <<now, 0>>]

\* generateRequestId() with the counter at rid and Date.now() = now: the new
\* counter and the id `iobroker_${now}_${counter}`, held as <<now, counter>>
generateRequestId(rid, now) == [rid |-> rid + 1, id |-> <<now, rid + 1>>]

\* sendCommand that tests only this.ws and not its readyState
sendCommand_NoStateCheck(socks, ref, rid, now, cmd, data) ==
    IF ref \notin SocketIds
    THEN [ret |-> "false", out |-> <<>>, rid |-> rid]
    ELSE [ret |-> "true",
          out |-> <<[shape |-> "envelope", Id |-> "", Cmd |-> cmd, Data |-> data,
                     RequestID |-> generateRequestId(rid, now).id,
                     MainboardID |-> "", TimeStamp |-> now, From |-> 1]>>,
          rid |-> generateRequestId(rid, now).rid]

\* sendCommand(cmd, data) on the transport table socks: the result holds the
\* return value, the frames handed to ws.send and the new request counter.
\* ws.send of a string on an OPEN transport does not throw, so the catch
\* branch of sendCommand is not taken.
sendCommand(socks, ref, rid, now, cmd, data) ==
    IF ~IsOpen(socks, ref)
    THEN [ret |-> "false", out |-> <<>>, rid |-> rid]
    ELSE [ret |-> "true",
          out |-> <<[shape |-> "envelope", Id |-> "", Cmd |-> cmd, Data |-> data,
                     RequestID |-> generateRequestId(rid, now).id,
                     MainboardID |-> "", TimeStamp |-> now, From |-> 1]>>,
          rid |-> generateRequestId(rid, now).rid]

\* requestStatus that asks for the attributes (command 1) instead of the status
requestStatus_WrongCmd(socks, ref, rid, now) == sendCommand(socks, ref, rid, now, 1, "{}")

requestStatus(socks, ref, rid, now) == sendCommand(socks, ref, rid, now, CmdStatus, "{}")

\* the request counter is capped: a handler that would transmit needs budget
CanSend(socks, ref) == IsOpen(socks, ref) => requestId < MaxRequestId

IsEnvelope(frame) == frame.shape = "envelope"

\* the RequestIDs of the envelopes among the frames out, in the order sent
EnvelopeIds(out) ==
    [i \in 1..Len(SelectSeq(out, IsEnvelope)) |-> SelectSeq(out, IsEnvelope)[i].RequestID]

\* every transmitted RequestID is remembered, in the order sent
Journal == sentIds' = sentIds \o EnvelopeIds(sent')

\* the requests the service holds as pending: the constructor creates no
\* field for them, sendCommand stores nothing and handleCommandResponse
\* looks nothing up
PendingRequests == {}

\* ---- MonitoringService: operations ---------------------------------------

\* connect() that returns as soon as this.ws is set, open or not
connectSvc_ReturnIfSet(t, throws) ==
    IF ws # 0
    THEN /\ SetSvcTimers(t)
         /\ UNCHANGED <<ws, sockets>>
    ELSE LET c == clearTimers(t)
         IN IF throws
            THEN /\ SetSvcTimers(scheduleReconnect(c))
                 /\ UNCHANGED <<ws, sockets>>
            ELSE LET s == NewSocket(ws)
                 IN /\ FreeSockets(ws) # {}
                    /\ ws' = s
                    /\ sockets' = Collect([sockets EXCEPT ![s] =
                            [readyState |-> "CONNECTING", listeners |-> TRUE,
                             opened |-> FALSE]], s)
                    /\ SetSvcTimers(c)

\* connect() entered with the timer state t: throws = the WebSocket
\* constructor throws
connectSvc(t, throws) ==
    IF IsOpen(sockets, ws)
    THEN /\ SetSvcTimers(t)
         /\ UNCHANGED <<ws, sockets>>
    ELSE LET c == clearTimers(t)
         IN IF throws
            THEN /\ SetSvcTimers(scheduleReconnect(c))
                 /\ UNCHANGED <<ws, sockets>>
            ELSE LET s == NewSocket(ws)
                 IN /\ FreeSockets(ws) # {}
                    /\ ws' = s
                    /\ sockets' = Collect([sockets EXCEPT ![s] =
                            [readyState |-> "CONNECTING", listeners |-> TRUE,
                             opened |-> FALSE]], s)
                    /\ SetSvcTimers(c)

\* onReady of src/unnamed/part_002: new MonitoringService(this); start()
Start ==
    /\ running = "none"
    /\ running' = "service"
    /\ \E throws \in {FALSE, ~printerUp} : connectSvc(SvcTimers, throws)
    /\ sent' = <<>>
    /\ lastRet' = "none"
    /\ lastEvent' = "start"
    /\ wasConnected' = isConnected
    /\ failedAttempts' = 0
    /\ UNCHANGED <<config, printerUp, requestId, isConnected, stopped, hndVars,
                   infoConnection>>
    /\ Journal
    /\ UNCHANGED msgVars

\* stop() without removeAllListeners
Stop_KeepListeners ==
    /\ running = "service"
    /\ SetSvcTimers(clearTimers(SvcTimers))
    /\ sockets' =
         IF ws \in SocketIds
         THEN Collect([sockets EXCEPT ![ws] =
                 [@ EXCEPT !.readyState = IF @ = "OPEN" THEN "CLOSING" ELSE @]], 0)
         ELSE sockets
    /\ ws' = 0
    /\ isConnected' = FALSE
    /\ infoConnection' = FALSE
    /\ stopped' = TRUE
    /\ sent' = <<>>
    /\ lastRet' = "none"
    /\ lastEvent' = IF stopped THEN "stopAgain" ELSE "stop"
    /\ wasConnected' = isConnected
    /\ UNCHANGED <<running, config, printerUp, requestId, hndVars, failedAttempts>>
    /\ Journal
    /\ UNCHANGED msgVars

\* stop() that calls this.ws.removeAllListeners() without testing this.ws:
\* with no transport the call throws after the timers were cleared
Stop_NoNullCheck ==
    /\ running = "service"
    /\ SetSvcTimers(clearTimers(SvcTimers))
    /\ sockets' =
         IF ws \in SocketIds
         THEN Collect([sockets EXCEPT ![ws] =
                 [@ EXCEPT !.listeners = FALSE,
                           !.readyState = IF @ = "OPEN" THEN "CLOSING" ELSE @]], 0)
         ELSE sockets
    /\ ws' = 0
    /\ isConnected' = (ws = 0 /\ isConnected)
    /\ infoConnection' = (ws = 0 /\ infoConnection)
    /\ stopped' = TRUE
    /\ sent' = <<>>
    /\ lastRet' = IF ws = 0 THEN "throw" ELSE "none"
    /\ lastEvent' = IF stopped THEN "stopAgain" ELSE "stop"
    /\ wasConnected' = isConnected
    /\ UNCHANGED <<running, config, printerUp, requestId, hndVars, failedAttempts>>
    /\ Journal
    /\ UNCHANGED msgVars

\* stop()
Stop ==
    /\ running = "service"
    /\ SetSvcTimers(clearTimers(SvcTimers))
    /\ sockets' =
         IF ws \in SocketIds
         THEN Collect([sockets EXCEPT ![ws] =
                 [@ EXCEPT !.listeners = FALSE,
                           !.readyState = IF @ = "OPEN" THEN "CLOSING" ELSE @]], 0)
         ELSE sockets
    /\ ws' = 0
    /\ isConnected' = FALSE
    /\ infoConnection' = FALSE
    /\ stopped' = TRUE
    /\ sent' = <<>>
    /\ lastRet' = "none"
    /\ lastEvent' = IF stopped THEN "stopAgain" ELSE "stop"
    /\ wasConnected' = isConnected
    /\ UNCHANGED <<running, config, printerUp, requestId, hndVars, failedAttempts>>
    /\ Journal
    /\ UNCHANGED msgVars

PingFrame ==
    [shape |-> "ping", Id |-> "", Cmd |-> -1, Data |-> "", RequestID |-> <<0, 0>>,
     MainboardID |-> "", TimeStamp |-> 0, From |-> 0]

\* the runtime removes a one-shot timer when it fires; an interval stays
Fired(t, id) ==
    IF t.live[id].repeat THEN t ELSE [t EXCEPT !.live[id] = NoTimer]

\* ws.on('open')
OnOpen(s) ==
    /\ running = "service"
    /\ sockets[s].readyState = "CONNECTING"
    /\ sockets[s].listeners
    /\ printerUp
    /\ \E now \in Timestamps :
       LET socks == [sockets EXCEPT ![s] = [@ EXCEPT !.readyState = "OPEN", !.opened = TRUE]]
           t1 == startKeepAlive(SvcTimers)
           r == requestStatus(socks, ws, requestId, now)
           t2 == startPolling(t1)
       IN /\ CanSend(socks, ws)
          /\ FreeIds(clearKeepAlive(SvcTimers)) # {}
          /\ FreeIds(clearPolling(t1)) # {}
          /\ sockets' = socks
          /\ isConnected' = TRUE
          /\ infoConnection' = TRUE
          /\ SetSvcTimers(t2)
          /\ requestId' = r.rid
          /\ sent' = r.out
    /\ lastRet' = "none"
    /\ lastEvent' = "open"
    /\ wasConnected' = isConnected
    /\ failedAttempts' = 0
    /\ UNCHANGED <<running, config, printerUp, ws, stopped, hndVars>>
    /\ Journal
    /\ UNCHANGED msgVars

\* an error handler that arms a reconnect with a bare setTimeout whose
\* handle is not kept
errorHandler_BareTimeout ==
    /\ isConnected' = FALSE
    /\ infoConnection' = FALSE
    /\ FreeIds(SvcTimers) # {}
    /\ timers' = [timers EXCEPT ![FreshId(SvcTimers)] =
            [kind |-> "reconnect", repeat |-> FALSE, delay |-> ReconnectMs]]
    /\ UNCHANGED <<reconnectTimer, pollTimer, keepAliveTimer>>

\* an error handler that does what the close handler does
errorHandler_AsClose ==
    /\ isConnected' = FALSE
    /\ infoConnection' = FALSE
    /\ FreeIds(clearTimers(SvcTimers)) # {}
    /\ SetSvcTimers(scheduleReconnect(clearTimers(SvcTimers)))

\* the body of ws.on('error')
errorHandler ==
    /\ isConnected' = FALSE
    /\ infoConnection' = FALSE
    /\ UNCHANGED <<timers, reconnectTimer, pollTimer, keepAliveTimer>>

\* ws.on('error'): the transport is already CLOSING when 'error' is emitted,
\* and its 'close' follows; a handshake fails only while the printer is down.
\* An open transport is dropped only while the capped request counter leaves
\* room for the status request of the next open event.
OnError(s) ==
    /\ running = "service"
    /\ sockets[s].listeners
    /\ \/ sockets[s].readyState = "OPEN" /\ requestId < MaxRequestId
       \/ /\ sockets[s].readyState = "CONNECTING"
          /\ ~printerUp
          /\ failedAttempts < MaxFailedAttempts
    /\ sockets' = [sockets EXCEPT ![s] = [@ EXCEPT !.readyState = "CLOSING"]]
    /\ errorHandler
    /\ sent' = <<>>
    /\ lastRet' = "none"
    /\ lastEvent' = "error"
    /\ wasConnected' = isConnected
    /\ UNCHANGED <<running, config, printerUp, ws, requestId, stopped, hndVars,
                   failedAttempts>>
    /\ Journal
    /\ UNCHANGED msgVars

\* ws.on('close')
OnClose(s) ==
    /\ running = "service"
    /\ sockets[s].listeners
    /\ \/ sockets[s].readyState = "OPEN" /\ requestId < MaxRequestId
       \/ sockets[s].readyState = "CLOSING"
    /\ sockets' = Collect([sockets EXCEPT ![s] = [@ EXCEPT !.readyState = "CLOSED"]], ws)
    /\ isConnected' = FALSE
    /\ infoConnection' = FALSE
    /\ FreeIds(clearTimers(SvcTimers)) # {}
    /\ SetSvcTimers(scheduleReconnect(clearTimers(SvcTimers)))
    /\ sent' = <<>>
    /\ lastRet' = "none"
    /\ lastEvent' = "close"
    /\ wasConnected' = isConnected
    /\ failedAttempts' = IF sockets[s].opened THEN 0 ELSE failedAttempts + 1
    /\ UNCHANGED <<running, config, printerUp, ws, requestId, stopped, hndVars>>
    /\ Journal
    /\ UNCHANGED msgVars

\* events of a transport whose listeners were removed by stop()
Unheard(s) ==
    /\ running = "service"
    /\ ~sockets[s].listeners
    /\ \E st \in {"OPEN", "CLOSING", "CLOSED"} :
         /\ \/ sockets[s].readyState = "CONNECTING" /\ st = "OPEN" /\ printerUp
            \/ sockets[s].readyState = "CONNECTING" /\ st = "CLOSING" /\ ~printerUp
            \/ sockets[s].readyState = "OPEN" /\ st \in {"CLOSING", "CLOSED"}
            \/ sockets[s].readyState = "CLOSING" /\ st = "CLOSED"
         /\ sockets' = Collect([sockets EXCEPT ![s] =
                 [@ EXCEPT !.readyState = st, !.opened = (@ \/ st = "OPEN")]], ws)
    /\ UNCHANGED <<running, config, printerUp, timers, svcVars, hndVars,
                   infoConnection, sent, lastRet, lastEvent, wasConnected,
                   failedAttempts>>
    /\ UNCHANGED <<sentIds, msgVars>>

\* the callback registered by scheduleReconnect
ReconnectFire(id) ==
    /\ running = "service"
    /\ timers[id].kind = "reconnect"
    /\ \E throws \in {FALSE, ~printerUp} :
         /\ throws => FreeIds(clearTimers(Fired(SvcTimers, id))) # {}
         /\ connectSvc(Fired(SvcTimers, id), throws)
         /\ failedAttempts' = IF throws THEN 0 ELSE failedAttempts
    /\ sent' = <<>>
    /\ lastRet' = "none"
    /\ lastEvent' = "reconnectFire"
    /\ wasConnected' = isConnected
    /\ UNCHANGED <<running, config, printerUp, requestId, isConnected, stopped,
                   hndVars, infoConnection>>
    /\ Journal
    /\ UNCHANGED msgVars

\* the callback registered by startPolling
PollFire(id) ==
    /\ running = "service"
    /\ timers[id].kind = "poll"
    /\ IF isConnected /\ IsOpen(sockets, ws)
       THEN \E now \in Timestamps :
            LET r == requestStatus(sockets, ws, requestId, now)
            IN /\ CanSend(sockets, ws)
               /\ requestId' = r.rid
               /\ sent' = r.out
               /\ SetSvcTimers(Fired(SvcTimers, id))
       ELSE /\ SetSvcTimers(clearPolling(Fired(SvcTimers, id)))
            /\ sent' = <<>>
            /\ UNCHANGED requestId
    /\ lastRet' = "none"
    /\ lastEvent' = "pollFire"
    /\ wasConnected' = isConnected
    /\ UNCHANGED <<running, config, printerUp, sockets, ws, isConnected, stopped,
                   hndVars, infoConnection, failedAttempts>>
    /\ Journal
    /\ UNCHANGED msgVars

\* a keep-alive callback that takes a probe it cannot send for a lost
\* connection and calls scheduleReconnect
KeepAliveFire_Reconnects(id) ==
    /\ running = "service"
    /\ timers[id].kind = "keepAlive"
    /\ IF IsOpen(sockets, ws)
       THEN /\ sent' = <<PingFrame>>
            /\ SetSvcTimers(Fired(SvcTimers, id))
       ELSE /\ sent' = <<>>
            /\ SetSvcTimers(scheduleReconnect(clearKeepAlive(Fired(SvcTimers, id))))
    /\ lastRet' = "none"
    /\ lastEvent' = "keepAliveFire"
    /\ wasConnected' = isConnected
    /\ UNCHANGED <<running, config, printerUp, sockets, ws, requestId, isConnected,
                   stopped, hndVars, infoConnection, failedAttempts>>
    /\ Journal
    /\ UNCHANGED msgVars

\* the callback registered by startKeepAlive
KeepAliveFire(id) ==
    /\ running = "service"
    /\ timers[id].kind = "keepAlive"
    /\ IF IsOpen(sockets, ws)
       THEN /\ sent' = <<PingFrame>>
            /\ SetSvcTimers(Fired(SvcTimers, id))
       ELSE /\ sent' = <<>>
            /\ SetSvcTimers(clearKeepAlive(Fired(SvcTimers, id)))
    /\ lastRet' = "none"
    /\ lastEvent' = "keepAliveFire"
    /\ wasConnected' = isConnected
    /\ UNCHANGED <<running, config, printerUp, sockets, ws, requestId, isConnected,
                   stopped, hndVars, infoConnection, failedAttempts>>
    /\ Journal
    /\ UNCHANGED msgVars

\* pausePrint / resumePrint / cancelPrint / toggleLight / requestStatus
Intent(name) ==
    /\ running = "service"
    /\ \E now \in Timestamps :
       LET r == sendCommand(sockets, ws, requestId, now, IntentCmd(name), IntentData(name))
       IN /\ CanSend(sockets, ws)
          /\ requestId' = r.rid
          /\ sent' = r.out
          /\ lastRet' = r.ret
    /\ lastEvent' = "intent"
    /\ wasConnected' = isConnected
    /\ UNCHANGED <<running, config, printerUp, timers, sockets, ws, reconnectTimer,
                   pollTimer, keepAliveTimer, isConnected, stopped, hndVars,
                   infoConnection, failedAttempts>>
    /\ Journal
    /\ UNCHANGED msgVars

\* ---- MonitoringHandler ----------------------------------------------------

\* the timer fields of the handler together with the runtime table
HndTimers ==
    [live |-> timers, pollTimer |-> hPollTimer, reconnectTimer |-> hReconnectTimer]

HFreeIds(t) ==
    {i \in TimerIds : t.live[i] = NoTimer /\ i \notin {t.pollTimer, t.reconnectTimer}}
HFreshId(t) == CHOOSE i \in HFreeIds(t) : \A j \in HFreeIds(t) : i <= j

SetHndTimers(t) ==
    /\ timers' = t.live
    /\ hPollTimer' = t.pollTimer
    /\ hReconnectTimer' = t.reconnectTimer

GetStatusFrame ==
    [shape |-> "bare", Id |-> "", Cmd |-> -1, Data |-> "{command:GET_STATUS}",
     RequestID |-> <<0, 0>>, MainboardID |-> "", TimeStamp |-> 0, From |-> 0]

stopPolling(t) ==
    IF t.pollTimer # 0
    THEN [t EXCEPT !.live = ClearHandle(t.live, t.pollTimer), !.pollTimer = 0]
    ELSE t

\* the closure poll of startPolling: the timer part
poll(t) ==
    LET id == HFreshId(t)
    IN [t EXCEPT !.live[id] = [kind |-> "poll", repeat |-> FALSE,
                               delay |-> config.pollInterval * 1000],
                 !.pollTimer = id]

\* the closure poll of startPolling: the frames it transmits
pollOut(socks, ref) == IF IsOpen(socks, ref) THEN <<GetStatusFrame>> ELSE <<>>

hStartPolling(t) == poll(stopPolling(t))

_scheduleReconnect(t) ==
    IF t.reconnectTimer = 0
    THEN LET id == HFreshId(t)
         IN [t EXCEPT !.live[id] = [kind |-> "reconnect", repeat |-> FALSE,
                                    delay |-> config.reconnectInterval * 1000],
                      !.reconnectTimer = id]
    ELSE t

\* MonitoringHandler.connect()
connectHnd ==
    LET s == NewSocket(hWs)
    IN /\ FreeSockets(hWs) # {}
       /\ hWs' = s
       /\ sockets' = Collect([sockets EXCEPT ![s] =
               [readyState |-> "CONNECTING", listeners |-> TRUE, opened |-> FALSE]], s)

\* onReady of src/main.js: new MonitoringHandler(this); connect()
HStart ==
    /\ running = "none"
    /\ running' = "handler"
    /\ connectHnd
    /\ sent' = <<>>
    /\ lastRet' = "none"
    /\ lastEvent' = "start"
    /\ wasConnected' = FALSE
    /\ failedAttempts' = 0
    /\ UNCHANGED <<config, printerUp, timers, svcVars, hPollTimer, hReconnectTimer,
                   hDisconnected, infoConnection>>
    /\ Journal
    /\ UNCHANGED msgVars

\* ws.on('open') of MonitoringHandler
HOnOpen(s) ==
    /\ running = "handler"
    /\ sockets[s].readyState = "CONNECTING"
    /\ printerUp
    /\ LET socks == [sockets EXCEPT ![s] = [@ EXCEPT !.readyState = "OPEN", !.opened = TRUE]]
           t1 == hStartPolling(HndTimers)
           t2 == IF t1.reconnectTimer # 0
                 THEN [t1 EXCEPT !.live = ClearHandle(t1.live, t1.reconnectTimer),
                                 !.reconnectTimer = 0]
                 ELSE t1
       IN /\ HFreeIds(stopPolling(HndTimers)) # {}
          /\ sockets' = socks
          /\ infoConnection' = TRUE
          /\ sent' = pollOut(socks, hWs)
          /\ SetHndTimers(t2)
    /\ lastRet' = "none"
    /\ lastEvent' = "open"
    /\ wasConnected' = IsOpen(sockets, hWs)
    /\ failedAttempts' = 0
    /\ UNCHANGED <<running, config, printerUp, svcVars, hWs, hDisconnected>>
    /\ Journal
    /\ UNCHANGED msgVars

\* ws.on('close') of MonitoringHandler
HOnClose(s) ==
    /\ running = "handler"
    /\ sockets[s].readyState \in {"OPEN", "CLOSING"}
    /\ sockets' = Collect([sockets EXCEPT ![s] = [@ EXCEPT !.readyState = "CLOSED"]], hWs)
    /\ infoConnection' = FALSE
    /\ HFreeIds(stopPolling(HndTimers)) # {}
    /\ SetHndTimers(_scheduleReconnect(stopPolling(HndTimers)))
    /\ sent' = <<>>
    /\ lastRet' = "none"
    /\ lastEvent' = "close"
    /\ wasConnected' = IsOpen(sockets, hWs)
    /\ failedAttempts' = IF sockets[s].opened THEN 0 ELSE failedAttempts + 1
    /\ UNCHANGED <<running, config, printerUp, svcVars, hWs, hDisconnected>>
    /\ Journal
    /\ UNCHANGED msgVars

\* the body of ws.on('error') of MonitoringHandler: it only logs
hErrorHandler ==
    UNCHANGED <<timers, hPollTimer, hReconnectTimer, infoConnection>>

\* ws.on('error') of MonitoringHandler
HOnError(s) ==
    /\ running = "handler"
    /\ \/ sockets[s].readyState = "OPEN"
       \/ /\ sockets[s].readyState = "CONNECTING"
          /\ ~printerUp
          /\ failedAttempts < MaxFailedAttempts
    /\ sockets' = [sockets EXCEPT ![s] = [@ EXCEPT !.readyState = "CLOSING"]]
    /\ hErrorHandler
    /\ sent' = <<>>
    /\ lastRet' = "none"
    /\ lastEvent' = "error"
    /\ wasConnected' = IsOpen(sockets, hWs)
    /\ UNCHANGED <<running, config, printerUp, svcVars, hWs, hDisconnected,
                   failedAttempts>>
    /\ Journal
    /\ UNCHANGED msgVars

\* the callback registered by _scheduleReconnect
HReconnectFire(id) ==
    /\ running = "handler"
    /\ timers[id].kind = "reconnect"
    /\ connectHnd
    /\ timers' = Fired(HndTimers, id).live
    /\ sent' = <<>>
    /\ lastRet' = "none"
    /\ lastEvent' = "reconnectFire"
    /\ wasConnected' = IsOpen(sockets, hWs)
    /\ UNCHANGED <<running, config, printerUp, svcVars, hPollTimer, hReconnectTimer,
                   hDisconnected, infoConnection, failedAttempts>>
    /\ Journal
    /\ UNCHANGED msgVars

\* the callback poll registered by setTimeout in startPolling
HPollFire(id) ==
    /\ running = "handler"
    /\ timers[id].kind = "poll"
    /\ HFreeIds(Fired(HndTimers, id)) # {}
    /\ SetHndTimers(poll(Fired(HndTimers, id)))
    /\ sent' = pollOut(sockets, hWs)
    /\ lastRet' = "none"
    /\ lastEvent' = "pollFire"
    /\ wasConnected' = IsOpen(sockets, hWs)
    /\ UNCHANGED <<running, config, printerUp, sockets, svcVars, hWs, hDisconnected,
                   infoConnection, failedAttempts>>
    /\ Journal
    /\ UNCHANGED msgVars

\* MonitoringHandler.disconnect(), called once by onUnload of src/main.js;
\* ws.close() aborts a handshake in progress and starts the closing
\* handshake of an open transport
HDisconnect ==
    /\ running = "handler"
    /\ hDisconnected = "no"
    /\ hDisconnected' = IF IsOpen(sockets, hWs) THEN "connected" ELSE "other"
    /\ timers' = ClearHandle(ClearHandle(timers, hPollTimer), hReconnectTimer)
    /\ sockets' =
         IF hWs \in SocketIds
         THEN [sockets EXCEPT ![hWs] =
                 [@ EXCEPT !.readyState =
                     IF @ \in {"OPEN", "CONNECTING"} THEN "CLOSING" ELSE @]]
         ELSE sockets
    /\ sent' = <<>>
    /\ lastRet' = "none"
    /\ lastEvent' = "disconnect"
    /\ wasConnected' = IsOpen(sockets, hWs)
    /\ UNCHANGED <<running, config, printerUp, svcVars, hWs, hPollTimer,
                   hReconnectTimer, infoConnection, failedAttempts>>
    /\ Journal
    /\ UNCHANGED msgVars

\* ---- the state tree --------------------------------------------------------

\* Numbers with decimals are held as integers: temperatures and coordinates
\* in thousandths, the z offset in hundred-thousandths. A JSON object is a
\* record whose domain is the set of keys the object has; a value that may be
\* undefined is <<>> or <<v>>.

\* the states MonitoringService writes, with the defaults createObjects of
\* src/unnamed/part_002 gives them
SvcDefaults ==
    [p \in {"temperatures.nozzle.actual", "temperatures.bed.actual",
            "temperatures.chamber.actual", "temperatures.nozzle.target",
            "temperatures.bed.target", "temperatures.chamber.target",
            "fans.model", "fans.auxiliary", "fans.chamber",
            "print.statusCode", "print.progress", "print.currentLayer",
            "print.totalLayers", "position.x", "position.y", "position.z",
            "position.zOffset", "lights.rgb.r", "lights.rgb.g", "lights.rgb.b",
            "info.lastUpdate"} |-> 0]
    @@ [p \in {"print.totalTime", "print.elapsedTime", "print.remainingTime"}
            |-> "00:00:00"]
    @@ [p \in {"print.status"} |-> "Unknown"]
    @@ [p \in {"print.filename"} |-> ""]
    @@ [p \in {"print.speedPercentage"} |-> 100]
    @@ [p \in {"lights.chamber"} |-> FALSE]

\* the states MonitoringHandler writes
HndDefaults ==
    [p \in {"status.printProgress", "status.currentLayer", "status.totalLayers",
            "status.elapsedPrintTime", "status.remainingPrintTime",
            "temperatures.nozzle", "temperatures.nozzleTarget",
            "temperatures.bed", "temperatures.bedTarget",
            "temperatures.enclosure", "fans.enclosure"} |-> 0]
    @@ [p \in {"status.elapsedPrintTime_hhmmss", "status.remainingPrintTime_hhmmss"}
            |-> "00:00:00"]
    @@ [p \in {"status.printStatus"} |-> ""]
    @@ [p \in {"status.printStatusCode"} |-> <<0>>]

DefaultTree == SvcDefaults @@ HndDefaults

\* handled: the kind of frame received, the members of its Status block, how
\* many times updatePrinterStatus
\* ran for it and what handleCommandResponse logged for it
NothingHandled == [kind |-> "none", members |-> {}, status |-> 0, response |-> "none"]

Has(obj, key) == key \in DOMAIN obj

\* obj[key] || dflt for a numeric member
OrDefault(obj, key, dflt) ==
    IF Has(obj, key) /\ obj[key] # 0 THEN obj[key] ELSE dflt

\* adapter.setState(id, val, true)
setState(t, id, val) == [t EXCEPT ![id] = val]

\* Math.round(x * 100) / 100 on thousandths
Round2(x) == ((x + 5) \div 10) * 10

\* Math.round(x * 10000) / 10000 on hundred-thousandths
Round4(x) == ((x + 5) \div 10) * 10

\* n.toString().padStart(2, '0')
Pad2(n) == IF n < 10 THEN "0" \o ToString(n) ELSE ToString(n)

formatTime(seconds) ==
    IF seconds <= 0
    THEN "00:00:00"
    ELSE Pad2(seconds \div 3600) \o ":" \o Pad2((seconds % 3600) \div 60)
            \o ":" \o Pad2(seconds % 60)

\* mapPrintStatus(statusCode); statusCode is <<>> when undefined
mapPrintStatus(statusCode) ==
    IF statusCode = <<>> THEN "Unknown (undefined)"
    ELSE CASE statusCode[1] = 0 -> "Idle"
           [] statusCode[1] = 8 -> "Preparing"
           [] statusCode[1] = 9 -> "Starting"
           [] statusCode[1] = 10 -> "Paused"
           [] statusCode[1] = 13 -> "Printing"
           [] OTHER -> "Unknown (" \o ToString(statusCode[1]) \o ")"

\* ---- MonitoringService: inbound frames -------------------------------------

\* updatePrinterStatus: the six temperature members
updateTemperatures(t, status) ==
    LET t1 == IF Has(status, "TempOfNozzle")
              THEN setState(t, "temperatures.nozzle.actual", Round2(status.TempOfNozzle))
              ELSE t
        t2 == IF Has(status, "TempOfHotbed")
              THEN setState(t1, "temperatures.bed.actual", Round2(status.TempOfHotbed))
              ELSE t1
        t3 == IF Has(status, "TempOfBox")
              THEN setState(t2, "temperatures.chamber.actual", Round2(status.TempOfBox))
              ELSE t2
        t4 == IF Has(status, "TempTargetNozzle")
              THEN setState(t3, "temperatures.nozzle.target", Round2(status.TempTargetNozzle))
              ELSE t3
        t5 == IF Has(status, "TempTargetHotbed")
              THEN setState(t4, "temperatures.bed.target", Round2(status.TempTargetHotbed))
              ELSE t4
    IN IF Has(status, "TempTargetBox")
       THEN setState(t5, "temperatures.chamber.target", Round2(status.TempTargetBox))
       ELSE t5

\* fan speeds written from the defaults even when the status has no
\* CurrentFanSpeed
updateFans_NoGuard(t, status) ==
    LET fan == IF Has(status, "CurrentFanSpeed") THEN status.CurrentFanSpeed
               ELSE [none |-> 0]
    IN setState(setState(setState(t,
            "fans.model", OrDefault(fan, "ModelFan", 0)),
            "fans.auxiliary", OrDefault(fan, "AuxiliaryFan", 0)),
            "fans.chamber", OrDefault(fan, "BoxFan", 0))

\* updatePrinterStatus: fan speeds
updateFans(t, status) ==
    IF Has(status, "CurrentFanSpeed")
    THEN setState(setState(setState(t,
            "fans.model", OrDefault(status.CurrentFanSpeed, "ModelFan", 0)),
            "fans.auxiliary", OrDefault(status.CurrentFanSpeed, "AuxiliaryFan", 0)),
            "fans.chamber", OrDefault(status.CurrentFanSpeed, "BoxFan", 0))
    ELSE t

\* updatePrinterStatus: print information
updatePrintInfo(t, status) ==
    IF Has(status, "PrintInfo")
    THEN LET printInfo == status.PrintInfo
             code == IF Has(printInfo, "Status") THEN <<printInfo.Status>> ELSE <<>>
             t1 == setState(t, "print.status", mapPrintStatus(code))
             t2 == setState(t1, "print.statusCode", OrDefault(printInfo, "Status", 0))
             t3 == setState(t2, "print.progress", OrDefault(printInfo, "Progress", 0))
             t4 == setState(t3, "print.currentLayer", OrDefault(printInfo, "CurrentLayer", 0))
             t5 == setState(t4, "print.totalLayers", OrDefault(printInfo, "TotalLayer", 0))
             t6 == setState(t5, "print.speedPercentage", OrDefault(printInfo, "PrintSpeedPct", 100))
             t7 == IF Has(printInfo, "Filename") /\ printInfo.Filename # ""
                   THEN setState(t6, "print.filename", printInfo.Filename)
                   ELSE t6
         IN IF OrDefault(printInfo, "CurrentTicks", 0) # 0
                /\ OrDefault(printInfo, "TotalTicks", 0) # 0
            THEN LET totalTimeSeconds == printInfo.TotalTicks
                     elapsedTimeSeconds == printInfo.CurrentTicks
                     remainingTimeSeconds ==
                         IF totalTimeSeconds - elapsedTimeSeconds > 0
                         THEN totalTimeSeconds - elapsedTimeSeconds ELSE 0
                 IN setState(setState(setState(t7,
                        "print.totalTime", formatTime(totalTimeSeconds)),
                        "print.elapsedTime", formatTime(elapsedTimeSeconds)),
                        "print.remainingTime", formatTime(remainingTimeSeconds))
            ELSE t7
    ELSE t

\* parseFloat(token) || 0; a token holds its text and the number parseFloat
\* reads from it (<<>> is NaN)
parseFloatOr0(token) == IF token.num = <<>> THEN 0 ELSE token.num[1]

\* updatePrinterStatus: position. CurrenCoord holds the tokens that
\* split(',') yields; the empty string is one empty token and is falsy.
updatePosition(t, status) ==
    IF Has(status, "CurrenCoord")
        /\ ~(Len(status.CurrenCoord) = 1 /\ status.CurrenCoord[1].text = "")
        /\ Len(status.CurrenCoord) = 3
    THEN setState(setState(setState(t,
            "position.x", parseFloatOr0(status.CurrenCoord[1])),
            "position.y", parseFloatOr0(status.CurrenCoord[2])),
            "position.z", parseFloatOr0(status.CurrenCoord[3]))
    ELSE t

\* updatePrinterStatus: z offset
updateZOffset(t, status) ==
    IF Has(status, "ZOffset")
    THEN setState(t, "position.zOffset", Round4(status.ZOffset))
    ELSE t

\* the chamber light written from !!(LightStatus && LightStatus.SecondLight)
\* without the guard on LightStatus
updateLights_NoGuard(t, status) ==
    LET light == IF Has(status, "LightStatus") THEN status.LightStatus
                 ELSE [none |-> 0]
        t1 == setState(t, "lights.chamber", OrDefault(light, "SecondLight", 0) # 0)
    IN IF Has(light, "RgbLight") /\ Len(light.RgbLight) >= 3
       THEN setState(setState(setState(t1,
               "lights.rgb.r", light.RgbLight[1]),
               "lights.rgb.g", light.RgbLight[2]),
               "lights.rgb.b", light.RgbLight[3])
       ELSE t1

\* updatePrinterStatus: lights
updateLights(t, status) ==
    IF Has(status, "LightStatus")
    THEN LET light == status.LightStatus
             t1 == setState(t, "lights.chamber", OrDefault(light, "SecondLight", 0) # 0)
         IN IF Has(light, "RgbLight") /\ Len(light.RgbLight) >= 3
            THEN setState(setState(setState(t1,
                    "lights.rgb.r", light.RgbLight[1]),
                    "lights.rgb.g", light.RgbLight[2]),
                    "lights.rgb.b", light.RgbLight[3])
            ELSE t1
    ELSE t

\* updatePrinterStatus(status) on the tree t
updatePrinterStatus(t, status) ==
    updateLights(updateZOffset(updatePosition(updatePrintInfo(
        updateFans(updateTemperatures(t, status), status), status), status),
        status), status)

\* a frame whose text is not JSON
InvalidFrame == [kind |-> "invalid"]

\* topics for which message.Topic.includes('sdcp/status/') holds
StatusTopics == {"sdcp/status/0001"}

\* a Status block with none of the members updatePrinterStatus reads; it
\* stands for the empty object too, which has no other member either
EmptyStatus == [TimeLapseStatus |-> 0]

\* the frames the printer sends: text that is not JSON, the JSON value null,
\* and JSON objects with any of the members Status, Data and Topic
SvcFrames ==
    {[kind |-> "invalid"],
     [kind |-> "null"],
     [kind |-> "object", msg |-> [Id |-> ""]],
     [kind |-> "object", msg |-> [Status |-> EmptyStatus]],
     [kind |-> "object", msg |-> [Status |-> [TempOfNozzle |-> 42567]]],
     [kind |-> "object", msg |-> [Status |->
        [TempOfNozzle |-> 21500, TempOfHotbed |-> 60004, TempOfBox |-> 30000,
         TempTargetNozzle |-> 210000, TempTargetHotbed |-> 60000,
         TempTargetBox |-> 0]]],
     [kind |-> "object", msg |-> [Status |->
        [CurrentFanSpeed |-> [ModelFan |-> 100, AuxiliaryFan |-> 50, BoxFan |-> 30]]]],
     [kind |-> "object", msg |-> [Status |-> [CurrentFanSpeed |-> [ModelFan |-> 80]]]],
     [kind |-> "object", msg |-> [Status |->
        [PrintInfo |-> [Status |-> 13, Progress |-> 42, CurrentLayer |-> 5,
                        TotalLayer |-> 100, PrintSpeedPct |-> 150,
                        Filename |-> "benchy.gcode", CurrentTicks |-> 3725,
                        TotalTicks |-> 7200]]]],
     [kind |-> "object", msg |-> [Status |-> [PrintInfo |-> [Status |-> 10]]]],
     [kind |-> "object", msg |-> [Status |->
        [PrintInfo |-> [Status |-> 13, CurrentTicks |-> 0, TotalTicks |-> 7200]]]],
     [kind |-> "object", msg |->
        [Status |-> [TempOfHotbed |-> 55555],
         Data |-> [Cmd |-> CmdPause, Data |-> [Ack |-> 0]]]],
     [kind |-> "object", msg |-> [Data |-> [Cmd |-> CmdCancel, Data |-> [Ack |-> 1]]]],
     [kind |-> "object", msg |->
        [Topic |-> "sdcp/status/0001", Status |-> [ZOffset |-> 12346]]],
     [kind |-> "object", msg |-> [Status |->
        [CurrenCoord |-> <<[text |-> "10.5", num |-> <<10500>>],
                           [text |-> "20", num |-> <<20000>>],
                           [text |-> "0.2", num |-> <<200>>]>>,
         LightStatus |-> [SecondLight |-> 1, RgbLight |-> <<255, 0, 0>>]]]],
     [kind |-> "object", msg |-> [Status |->
        [CurrenCoord |-> <<[text |-> "1", num |-> <<1000>>],
                           [text |-> "abc", num |-> <<>>],
                           [text |-> "3", num |-> <<3000>>]>>,
         ZOffset |-> 5000,
         LightStatus |-> [SecondLight |-> 0]]]],
     [kind |-> "object", msg |-> [Status |->
        [CurrenCoord |-> <<[text |-> "7", num |-> <<7000>>],
                           [text |-> "8", num |-> <<8000>>]>>,
         ZOffset |-> 5000,
         LightStatus |-> [SecondLight |-> 0]]]]}

\* handleCommandResponse(message): the text it logs; a response without
\* Data.Data.Ack is not logged
handleCommandResponse(message) ==
    IF Has(message.Data, "Data") /\ Has(message.Data.Data, "Ack")
    THEN CASE message.Data.Data.Ack = 0 -> "Success"
           [] message.Data.Data.Ack = 1 -> "Failed/Error"
           [] message.Data.Data.Ack = 2 -> "File Not Found"
           [] OTHER -> "Unknown (" \o ToString(message.Data.Data.Ack) \o ")"
    ELSE "noAck"

\* handleMessage in which a frame with a Status is taken for a status
\* message only (else if)
handleMessage_ElseIf(t, message, now) ==
    LET isStatus == Has(message, "Status")
        again == isStatus /\ Has(message, "Topic") /\ message.Topic \in StatusTopics
        t1 == IF isStatus
              THEN setState(updatePrinterStatus(t, message.Status), "info.lastUpdate", now)
              ELSE t
    IN [tree |-> IF again THEN updatePrinterStatus(t1, message.Status) ELSE t1,
        handled |->
          [kind |-> "object",
           members |-> IF isStatus THEN DOMAIN message.Status ELSE {},
           status |-> (IF isStatus THEN 1 ELSE 0) + (IF again THEN 1 ELSE 0),
           response |-> IF ~isStatus /\ Has(message, "Data") /\ Has(message.Data, "Cmd")
                        THEN handleCommandResponse(message) ELSE "none"]]

\* handleMessage(message) on the tree t, with new Date() = now
handleMessage(t, message, now) ==
    LET isStatus == Has(message, "Status")
        again == isStatus /\ Has(message, "Topic") /\ message.Topic \in StatusTopics
        t1 == IF isStatus
              THEN setState(updatePrinterStatus(t, message.Status), "info.lastUpdate", now)
              ELSE t
    IN [tree |-> IF again THEN updatePrinterStatus(t1, message.Status) ELSE t1,
        handled |->
          [kind |-> "object",
           members |-> IF isStatus THEN DOMAIN message.Status ELSE {},
           status |-> (IF isStatus THEN 1 ELSE 0) + (IF again THEN 1 ELSE 0),
           response |-> IF Has(message, "Data") /\ Has(message.Data, "Cmd")
                        THEN handleCommandResponse(message) ELSE "none"]]

\* a message listener without try/catch around JSON.parse
messageHandler_NoCatch(t, frame, now) ==
    IF frame.kind \in {"invalid", "null"}
    THEN [tree |-> t, handled |-> [NothingHandled EXCEPT !.kind = frame.kind],
          threw |-> frame.kind = "invalid"]
    ELSE handleMessage(t, frame.msg, now) @@ [threw |-> FALSE]

\* the listener of ws.on('message'): JSON.parse throws on text that is not
\* JSON and the listener catches it; for null, handleMessage reads a member
\* of null and catches the TypeError itself
messageHandler(t, frame, now) ==
    IF frame.kind \in {"invalid", "null"}
    THEN [tree |-> t, handled |-> [NothingHandled EXCEPT !.kind = frame.kind],
          threw |-> FALSE]
    ELSE handleMessage(t, frame.msg, now) @@ [threw |-> FALSE]

\* ws.on('message'): a frame arrives on an open transport
OnMessage(s, frame) ==
    /\ running = "service"
    /\ sockets[s].readyState = "OPEN"
    /\ sockets[s].listeners
    /\ \E now \in Timestamps :
       LET r == messageHandler(tree, frame, now)
       IN /\ tree' = r.tree
          /\ handled' = r.handled
          /\ lastRet' = IF r.threw THEN "throw" ELSE "none"
    /\ sent' = <<>>
    /\ lastEvent' = "message"
    /\ wasConnected' = isConnected
    /\ UNCHANGED <<running, config, printerUp, timers, sockets, svcVars, hndVars,
                   infoConnection, failedAttempts, hInflight, hArrived,
                   formatted, stateChanged>>
    /\ Journal

\* ---- MonitoringHandler: inbound frames -------------------------------------

\* STATUS_CODES[statusCode] || 'UNKNOWN' of src/lib/messages.js; statusCode is
\* <<>> when undefined
StatusKey(statusCode) ==
    IF statusCode = <<>> THEN "UNKNOWN"
    ELSE CASE statusCode[1] = 0 -> "IDLE"
           [] statusCode[1] = 1 -> "HOMING"
           [] statusCode[1] = 2 -> "DROPPING"
           [] statusCode[1] \in {3, 13} -> "PRINTING"
           [] statusCode[1] = 4 -> "LIFTING"
           [] statusCode[1] = 5 -> "PAUSING"
           [] statusCode[1] = 6 -> "PAUSED"
           [] statusCode[1] = 7 -> "STOPPING"
           [] statusCode[1] = 8 -> "STOPPED"
           [] statusCode[1] = 9 -> "COMPLETE"
           [] statusCode[1] = 10 -> "FILE_CHECKING"
           [] statusCode[1] = 12 -> "RECOVERY"
           [] statusCode[1] \in {15, 16, 18, 19, 20, 21} -> "LOADING"
           [] OTHER -> "UNKNOWN"

formatSeconds(seconds) ==
    IF seconds < 0
    THEN "00:00:00"
    ELSE Pad2(seconds \div 3600) \o ":" \o Pad2((seconds % 3600) \div 60)
            \o ":" \o Pad2(seconds % 60)

\* the frames the printer sends to MonitoringHandler
HndFrames ==
    {[kind |-> "invalid"],
     [kind |-> "null"],
     [kind |-> "object", msg |-> [command |-> "PONG"]],
     [kind |-> "object", msg |-> [command |-> "GET_STATUS_RSP", data |->
        [print_status |-> 3, progress |-> 42,
         temps |-> [nozzle |-> [current |-> 210], enclosure |-> 35],
         fans |-> [model |-> 100, aux |-> 50, enclosure |-> 30]]]],
     [kind |-> "object", msg |-> [command |-> "GET_STATUS_RSP", data |->
        [progress |-> 50, print_time_secs |-> 3725]]]}

\* data.temps.<sensor>?.<member> || 0
SensorOr0(temps, sensor, member) ==
    IF Has(temps, sensor) THEN OrDefault(temps[sensor], member, 0) ELSE 0

\* the calls of setStateAsync that _handleMessage makes for the status data,
\* in program order; each is awaited before the next is made
StatusWrites(data) ==
    LET statusCode == IF Has(data, "print_status") THEN <<data.print_status>> ELSE <<>>
        elapsed == OrDefault(data, "print_time_secs", 0)
        remaining == OrDefault(data, "remaining_time_secs", 0)
    IN <<[id |-> "status.printStatusCode", val |-> statusCode],
         [id |-> "status.printStatus", val |-> StatusKey(statusCode)],
         [id |-> "status.printProgress", val |-> OrDefault(data, "progress", 0)],
         [id |-> "status.currentLayer", val |-> OrDefault(data, "current_layer", 0)],
         [id |-> "status.totalLayers", val |-> OrDefault(data, "total_layers", 0)],
         [id |-> "status.elapsedPrintTime", val |-> elapsed],
         [id |-> "status.elapsedPrintTime_hhmmss", val |-> formatSeconds(elapsed)],
         [id |-> "status.remainingPrintTime", val |-> remaining],
         [id |-> "status.remainingPrintTime_hhmmss", val |-> formatSeconds(remaining)]>>
       \o (IF Has(data, "temps")
           THEN <<[id |-> "temperatures.nozzle",
                   val |-> SensorOr0(data.temps, "nozzle", "current")],
                  [id |-> "temperatures.nozzleTarget",
                   val |-> SensorOr0(data.temps, "nozzle", "target")],
                  [id |-> "temperatures.bed",
                   val |-> SensorOr0(data.temps, "bed", "current")],
                  [id |-> "temperatures.bedTarget",
                   val |-> SensorOr0(data.temps, "bed", "target")],
                  [id |-> "temperatures.enclosure",
                   val |-> OrDefault(data.temps, "enclosure", 0)]>>
           ELSE <<>>)
       \o (IF Has(data, "fans")
           THEN <<[id |-> "fans.model", val |-> OrDefault(data.fans, "model", 0)],
                  [id |-> "fans.auxiliary", val |-> OrDefault(data.fans, "aux", 0)],
                  [id |-> "fans.enclosure", val |-> OrDefault(data.fans, "enclosure", 0)]>>
           ELSE <<>>)

\* payload.command === 'GET_STATUS_RSP' && payload.data
IsStatusResponse(frame) ==
    /\ frame.kind = "object"
    /\ Has(frame.msg, "command") /\ frame.msg.command = "GET_STATUS_RSP"
    /\ Has(frame.msg, "data")

\* _handleMessage(message) up to its first await; JSON.parse of text that is
\* not JSON and the member access on null throw inside the try block
_handleMessage(t, calls, frame) ==
    IF IsStatusResponse(frame)
    THEN LET w == StatusWrites(frame.msg.data)
         IN [tree |-> setState(t, w[1].id, w[1].val),
             calls |-> Append(calls, [writes |-> w, next |-> 2]),
             handled |-> [NothingHandled EXCEPT !.kind = frame.kind, !.status = 1]]
    ELSE [tree |-> t, calls |-> calls,
          handled |-> [NothingHandled EXCEPT !.kind = frame.kind]]

\* ws.on('message') of MonitoringHandler: the listener calls _handleMessage
\* and does not await it
hMessageListener(s, frame) ==
    /\ running = "handler"
    /\ sockets[s].readyState = "OPEN"
    /\ LET r == _handleMessage(tree, hInflight, frame)
       IN /\ tree' = r.tree
          /\ hInflight' = r.calls
          /\ handled' = r.handled
    /\ hArrived' = IF IsStatusResponse(frame) THEN <<frame.msg.data>> ELSE hArrived
    /\ sent' = <<>>
    /\ lastRet' = "none"
    /\ lastEvent' = "message"
    /\ wasConnected' = IsOpen(sockets, hWs)
    /\ UNCHANGED <<running, config, printerUp, timers, sockets, svcVars, hndVars,
                   infoConnection, failedAttempts, formatted, stateChanged>>
    /\ Journal

\* a frame arrives at MonitoringHandler
HOnMessage(s, frame) ==
    /\ IsStatusResponse(frame) => Len(hInflight) < MaxInflight
    /\ hMessageListener(s, frame)

\* a frame arrives at MonitoringHandler while earlier calls of _handleMessage
\* may still be suspended
HOnMessageOverlapped(s, frame) ==
    /\ IsStatusResponse(frame) => Len(hInflight) < MaxOverlap
    /\ hMessageListener(s, frame)

\* an awaited setStateAsync has completed: the suspended call of
\* _handleMessage at position i goes on to its next setStateAsync, or ends
\* after its last one
HResume(i) ==
    /\ running = "handler"
    /\ i \in 1..Len(hInflight)
    /\ LET call == hInflight[i]
           w == call.writes[call.next]
       IN /\ tree' = setState(tree, w.id, w.val)
          /\ hInflight' =
               IF call.next = Len(call.writes)
               THEN [k \in 1..(Len(hInflight) - 1) |->
                        IF k < i THEN hInflight[k] ELSE hInflight[k + 1]]
               ELSE [hInflight EXCEPT ![i].next = call.next + 1]
    /\ sent' = <<>>
    /\ lastRet' = "none"
    /\ lastEvent' = "resume"
    /\ wasConnected' = IsOpen(sockets, hWs)
    /\ UNCHANGED <<running, config, printerUp, timers, sockets, svcVars, hndVars,
                   infoConnection, failedAttempts, handled, hArrived,
                   formatted, stateChanged>>
    /\ Journal

\* ---- state changes ----------------------------------------------------------

\* a value of a state: its JSON type and its text
JsValue(t, text) == [t |-> t, text |-> text]

\* the values that are falsy among those used
Truthy(val) ==
    val \notin {JsValue("boolean", "false"), JsValue("number", "0"), JsValue("string", "")}

\* !!val as a state value
ToBoolean(val) == JsValue("boolean", IF Truthy(val) THEN "true" ELSE "false")

\* A state change as the adapter receives it: the id without the namespace,
\* whether a state object is delivered (null when the state was deleted), its
\* value and its ack flag.
Change(id, present, val, ack) == [id |-> id, present |-> present, val |-> val, ack |-> ack]

SvcControlIds ==
    {"controls.pause", "controls.resume", "controls.cancel", "controls.light",
     "controls.refresh", "controls.speed"}

\* the changes the adapter of MonitoringService receives: a user writes true
\* or false to a control, a control is set with ack = true (by the adapter
\* itself or by anyone else), a control is deleted
SvcChanges ==
    {Change(id, TRUE, JsValue("boolean", b), ack) :
        id \in SvcControlIds, b \in {"true", "false"}, ack \in BOOLEAN}
    \cup {Change("controls.pause", FALSE, JsValue("undefined", ""), FALSE)}

HndControlIds ==
    {"control.targetNozzleTemp", "control.targetBedTemp", "control.command",
     "control.printSpeed"}

\* the changes the adapter of MonitoringHandler receives
HndChanges ==
    {Change(id, TRUE, val, FALSE) :
        id \in HndControlIds,
        val \in {JsValue("number", "210"), JsValue("string", "pause")}}
    \cup {Change(id, TRUE, JsValue("number", "210"), TRUE) : id \in HndControlIds}
    \cup {Change("control.command", FALSE, JsValue("undefined", ""), FALSE)}

\* no state change has been handled
NoStateChange ==
    [change |-> Change("", FALSE, JsValue("undefined", ""), FALSE), write |-> <<>>]

\* the method of MonitoringService that onStateChange calls for a control
ControlIntent(change) ==
    CASE change.id = "controls.pause" -> "pausePrint"
      [] change.id = "controls.resume" -> "resumePrint"
      [] change.id = "controls.cancel" -> "cancelPrint"
      [] change.id = "controls.refresh" -> "requestStatus"
      [] change.id = "controls.light" ->
            IF Truthy(change.val) THEN "toggleLightOn" ELSE "toggleLightOff"

\* onStateChange that handles acknowledged changes like commands
onStateChange_NoAckCheck(change) ==
    IF ~change.present
    THEN [call |-> <<>>, write |-> <<>>]
    ELSE CASE change.id \in {"controls.pause", "controls.resume", "controls.cancel",
                             "controls.refresh"} ->
                IF Truthy(change.val)
                THEN [call |-> <<ControlIntent(change)>>,
                      write |-> <<[id |-> change.id, val |-> JsValue("boolean", "false")]>>]
                ELSE [call |-> <<>>, write |-> <<>>]
           [] change.id = "controls.light" ->
                [call |-> <<ControlIntent(change)>>,
                 write |-> <<[id |-> change.id, val |-> ToBoolean(change.val)]>>]
           [] OTHER ->
                [call |-> <<>>, write |-> <<[id |-> change.id, val |-> change.val]>>]

\* onStateChange(id, state) of src/unnamed/part_002 with a monitoring service:
\* the method it calls, if any, and the acknowledged write it makes after it
onStateChange(change) ==
    IF ~change.present \/ change.ack
    THEN [call |-> <<>>, write |-> <<>>]
    ELSE CASE change.id \in {"controls.pause", "controls.resume", "controls.cancel",
                             "controls.refresh"} ->
                IF Truthy(change.val)
                THEN [call |-> <<ControlIntent(change)>>,
                      write |-> <<[id |-> change.id, val |-> JsValue("boolean", "false")]>>]
                ELSE [call |-> <<>>, write |-> <<>>]
           [] change.id = "controls.light" ->
                [call |-> <<ControlIntent(change)>>,
                 write |-> <<[id |-> change.id, val |-> ToBoolean(change.val)]>>]
           [] OTHER ->
                [call |-> <<>>, write |-> <<[id |-> change.id, val |-> change.val]>>]

\* the adapter of MonitoringService receives a state change
SvcStateChange(change) ==
    /\ running = "service"
    /\ LET h == onStateChange(change)
       IN /\ stateChanged' = [change |-> change, write |-> h.write]
          /\ IF h.call # <<>>
             THEN \E now \in Timestamps :
                  LET r == sendCommand(sockets, ws, requestId, now,
                                       IntentCmd(h.call[1]), IntentData(h.call[1]))
                  IN /\ CanSend(sockets, ws)
                     /\ requestId' = r.rid
                     /\ sent' = r.out
                     /\ lastRet' = r.ret
             ELSE /\ sent' = <<>>
                  /\ lastRet' = "none"
                  /\ UNCHANGED requestId
    /\ lastEvent' = "stateChange"
    /\ wasConnected' = isConnected
    /\ UNCHANGED <<running, config, printerUp, timers, sockets, ws, reconnectTimer,
                   pollTimer, keepAliveTimer, isConnected, stopped, hndVars,
                   infoConnection, failedAttempts, tree, handled, hInflight,
                   hArrived, formatted>>
    /\ Journal

\* id.split('.').pop()
LastSegment(id) ==
    CASE id = "control.targetNozzleTemp" -> "targetNozzleTemp"
      [] id = "control.targetBedTemp" -> "targetBedTemp"
      [] id = "control.command" -> "command"
      [] id = "control.printSpeed" -> "printSpeed"

\* handleCommand that passes a command without a case on to the printer
handleCommand_PassThrough(command, value) ==
    CASE command = "targetNozzleTemp" ->
            [threw |-> FALSE,
             commandObject |-> <<"{command:SET_TEMP,data:{type:nozzle,value:"
                                    \o value.text \o "}}">>]
      [] command = "targetBedTemp" ->
            [threw |-> FALSE,
             commandObject |-> <<"{command:SET_TEMP,data:{type:bed,value:"
                                    \o value.text \o "}}">>]
      [] command = "command" -> [threw |-> TRUE, commandObject |-> <<>>]
      [] OTHER ->
            [threw |-> FALSE,
             commandObject |-> <<"{command:" \o command \o ",data:" \o value.text \o "}">>]

\* ControlHandler.handleCommand(command, value) up to _sendCommand: whether it
\* throws, and the command object it builds. The case 'command' calls
\* includes(...), which is bound nowhere in the module: evaluating the callee
\* throws a ReferenceError before value.toUpperCase() is reached.
handleCommand(command, value) ==
    CASE command = "targetNozzleTemp" ->
            [threw |-> FALSE,
             commandObject |-> <<"{command:SET_TEMP,data:{type:nozzle,value:"
                                    \o value.text \o "}}">>]
      [] command = "targetBedTemp" ->
            [threw |-> FALSE,
             commandObject |-> <<"{command:SET_TEMP,data:{type:bed,value:"
                                    \o value.text \o "}}">>]
      [] command = "command" -> [threw |-> TRUE, commandObject |-> <<>>]
      [] OTHER -> [threw |-> FALSE, commandObject |-> <<>>]

\* ControlHandler._sendCommand(commandObject): the frames handed to ws.send;
\* the getter set by onReady returns MonitoringHandler.ws
_sendCommand(socks, ref, commandObject) ==
    IF IsOpen(socks, ref)
    THEN <<[shape |-> "bare", Id |-> "", Cmd |-> -1, Data |-> commandObject,
            RequestID |-> <<0, 0>>, MainboardID |-> "", TimeStamp |-> 0, From |-> 0]>>
    ELSE <<>>

\* onStateChange(id, state) of src/main.js
HStateChange(change) ==
    /\ running = "handler"
    /\ IF change.present /\ ~change.ack
       THEN LET r == handleCommand(LastSegment(change.id), change.val)
            IN /\ sent' = IF r.commandObject # <<>>
                          THEN _sendCommand(sockets, hWs, r.commandObject[1])
                          ELSE <<>>
               /\ lastRet' = IF r.threw THEN "throw" ELSE "none"
       ELSE /\ sent' = <<>>
            /\ lastRet' = "none"
    /\ stateChanged' = [change |-> change, write |-> <<>>]
    /\ lastEvent' = "stateChange"
    /\ wasConnected' = IsOpen(sockets, hWs)
    /\ UNCHANGED <<running, config, printerUp, timers, sockets, svcVars, hndVars,
                   infoConnection, failedAttempts, tree, handled, hInflight,
                   hArrived, formatted>>
    /\ Journal

\* no formatter call has been made
NoFormat == [arg |-> [t |-> "none", v |-> 0], time |-> "", seconds |-> ""]

\* environment: the printer starts or stops accepting connections
PrinterToggle ==
    /\ printerUp' = ~printerUp
    /\ UNCHANGED <<running, config, timers, sockets, svcVars, hndVars,
                   infoConnection, sent, lastRet, lastEvent, wasConnected,
                   failedAttempts>>
    /\ UNCHANGED <<sentIds, msgVars>>

Init ==
    /\ running = "none"
    /\ config \in [reconnectInterval : ReconnectIntervals, pollInterval : PollIntervals]
    /\ printerUp \in BOOLEAN
    /\ timers = [i \in TimerIds |-> NoTimer]
    /\ sockets = [s \in SocketIds |-> NoSocket]
    /\ ws = 0
    /\ reconnectTimer = 0
    /\ pollTimer = 0
    /\ keepAliveTimer = 0
    /\ requestId = 0
    /\ isConnected = FALSE
    /\ stopped = FALSE
    /\ hWs = 0
    /\ hPollTimer = 0
    /\ hReconnectTimer = 0
    /\ hDisconnected = "no"
    /\ infoConnection = FALSE
    /\ sent = <<>>
    /\ lastRet = "none"
    /\ lastEvent = "init"
    /\ wasConnected = FALSE
    /\ failedAttempts = 0
    /\ sentIds = <<>>
    /\ tree = DefaultTree
    /\ handled = NothingHandled
    /\ hInflight = <<>>
    /\ hArrived = <<>>
    /\ formatted = NoFormat
    /\ stateChanged = NoStateChange

Next ==
    \/ Start
    \/ Stop
    \/ \E s \in SocketIds : OnOpen(s)
    \/ \E s \in SocketIds : OnError(s)
    \/ \E s \in SocketIds : OnClose(s)
    \/ \E s \in SocketIds : Unheard(s)
    \/ \E id \in TimerIds : ReconnectFire(id)
    \/ \E id \in TimerIds : PollFire(id)
    \/ \E id \in TimerIds : KeepAliveFire(id)
    \/ \E name \in Intents : Intent(name)
    \/ HStart
    \/ \E s \in SocketIds : HOnOpen(s)
    \/ \E s \in SocketIds : HOnError(s)
    \/ \E s \in SocketIds : HOnClose(s)
    \/ \E id \in TimerIds : HReconnectFire(id)
    \/ \E id \in TimerIds : HPollFire(id)
    \/ HDisconnect
    \/ PrinterToggle

Spec == Init /\ [][Next]_vars

\* ---- the session with state changes -------------------------------------------

CmdNext ==
    \/ Next
    \/ \E change \in SvcChanges : SvcStateChange(change)
    \/ \E change \in HndChanges : HStateChange(change)

CmdInit ==
    /\ Init
    /\ config.reconnectInterval = DefaultReconnectInterval

CmdSpec == CmdInit /\ [][CmdNext]_vars

\* ---- the session whose connect is called again ---------------------------------

\* start() of MonitoringService called again while the connection attempt of
\* the session is in progress
StartAgain ==
    /\ running = "service"
    /\ ws \in SocketIds
    /\ sockets[ws].readyState = "CONNECTING"
    /\ \E throws \in {FALSE, ~printerUp} :
         /\ throws => FreeIds(clearTimers(SvcTimers)) # {}
         /\ connectSvc(SvcTimers, throws)
    /\ sent' = <<>>
    /\ lastRet' = "none"
    /\ lastEvent' = "startAgain"
    /\ wasConnected' = isConnected
    /\ UNCHANGED <<running, config, printerUp, requestId, isConnected, stopped,
                   hndVars, infoConnection, failedAttempts>>
    /\ Journal
    /\ UNCHANGED msgVars

\* connect() of MonitoringHandler called again while the connection attempt of
\* the session is in progress
HConnectAgain ==
    /\ running = "handler"
    /\ hWs \in SocketIds
    /\ sockets[hWs].readyState = "CONNECTING"
    /\ connectHnd
    /\ sent' = <<>>
    /\ lastRet' = "none"
    /\ lastEvent' = "connectAgain"
    /\ wasConnected' = IsOpen(sockets, hWs)
    /\ UNCHANGED <<running, config, printerUp, timers, svcVars, hPollTimer,
                   hReconnectTimer, hDisconnected, infoConnection, failedAttempts>>
    /\ Journal
    /\ UNCHANGED msgVars

\* the lifecycle with the two repeated calls; one intent stands for the
\* five, which differ only in the opcode and the data they send
AgainNext ==
    \/ Start
    \/ StartAgain
    \/ Stop
    \/ \E s \in SocketIds : OnOpen(s)
    \/ \E s \in SocketIds : OnError(s)
    \/ \E s \in SocketIds : OnClose(s)
    \/ \E s \in SocketIds : Unheard(s)
    \/ \E id \in TimerIds : ReconnectFire(id)
    \/ \E id \in TimerIds : PollFire(id)
    \/ \E id \in TimerIds : KeepAliveFire(id)
    \/ Intent("pausePrint")
    \/ HStart
    \/ HConnectAgain
    \/ \E s \in SocketIds : HOnOpen(s)
    \/ \E s \in SocketIds : HOnError(s)
    \/ \E s \in SocketIds : HOnClose(s)
    \/ \E id \in TimerIds : HReconnectFire(id)
    \/ \E id \in TimerIds : HPollFire(id)
    \/ HDisconnect
    \/ PrinterToggle

AgainSpec == CmdInit /\ [][AgainNext]_vars

\* ---- inbound frames on a connected session ----------------------------------

\* The message handlers read and write only the state tree, so they are
\* explored on their own: the session is started, its transport opens, and
\* from then on frames arrive.
MsgInit ==
    /\ Init
    /\ printerUp
    /\ config.reconnectInterval = DefaultReconnectInterval

MsgNext ==
    \/ Start
    \/ \E s \in SocketIds : OnOpen(s)
    \/ \E s \in SocketIds, frame \in SvcFrames : OnMessage(s, frame)
    \/ HStart
    \/ \E s \in SocketIds : HOnOpen(s)
    \/ \E s \in SocketIds, frame \in HndFrames : HOnMessage(s, frame)
    \/ \E i \in 1..MaxInflight : HResume(i)

MsgSpec == MsgInit /\ [][MsgNext]_vars

\* ---- status responses that overlap in MonitoringHandler ----------------------

\* the status responses of HndFrames and one with fan speeds and without
\* temperatures
AsyncFrames ==
    {frame \in HndFrames : IsStatusResponse(frame)}
    \cup {[kind |-> "object", msg |-> [command |-> "GET_STATUS_RSP", data |->
                [print_status |-> 3, fans |-> [model |-> 80]]]]}

\* Status responses arrive while the calls of _handleMessage for earlier
\* ones are still suspended at an await; the awaited writes complete in any
\* order.
AsyncNext ==
    \/ HStart
    \/ \E s \in SocketIds : HOnOpen(s)
    \/ \E s \in SocketIds, frame \in AsyncFrames : HOnMessageOverlapped(s, frame)
    \/ \E i \in 1..MaxOverlap : HResume(i)

AsyncSpec == MsgInit /\ [][AsyncNext]_vars

\* ---- the time formatters as pure functions ----------------------------------

\* A JavaScript value passed to a formatter: a number, NaN, undefined, null or
\* a string that is not numeric (Number(x) is NaN)
JsNumber(n) == [t |-> "number", v |-> n]
NotNumbers == {[t |-> k, v |-> 0] : k \in {"NaN", "undefined", "null", "text"}}

\* the seconds the formatters are applied to
TimeInputs ==
    {JsNumber(n) : n \in (0 - MaxNegative)..MaxSeconds}
    \cup {JsNumber(n) : n \in {3599, 3600, 3661, 7200, 86399, 86400, 359999, 360000}}
    \cup NotNumbers

\* formatTime(seconds) of MonitoringService on any value: !seconds holds for
\* 0, NaN, undefined and null; a string that is not numeric is truthy and not
\* below 0, and Math.floor of it is NaN
formatTimeAny(value) ==
    CASE value.t = "number" -> formatTime(value.v)
      [] value.t \in {"NaN", "undefined", "null"} -> "00:00:00"
      [] value.t = "text" -> "NaN:NaN:NaN"

\* formatSeconds(seconds) of MonitoringHandler on any value: isNaN holds for
\* NaN, undefined and a string that is not numeric; null is 0 in arithmetic
formatSecondsAny(value) ==
    CASE value.t = "number" -> formatSeconds(value.v)
      [] value.t \in {"NaN", "undefined", "text"} -> "00:00:00"
      [] value.t = "null" -> formatSeconds(0)

\* both formatters are applied to a value
FormatCall(value) ==
    /\ formatted' = [arg |-> value, time |-> formatTimeAny(value),
                     seconds |-> formatSecondsAny(value)]
    /\ UNCHANGED <<running, config, printerUp, timers, sockets, svcVars, hndVars,
                   infoConnection, sent, lastRet, lastEvent, wasConnected,
                   failedAttempts, sentIds, tree, handled, hInflight, hArrived,
                   stateChanged>>

FmtNext == \E value \in TimeInputs : FormatCall(value)

FmtSpec == Init /\ [][FmtNext]_vars

\* ---- fairness: the runtime fires a due timer, the transport delivers the
\* open event of an accepted handshake and the close event that follows an
\* error
Fairness ==
    /\ WF_vars(\E id \in TimerIds : ReconnectFire(id))
    /\ WF_vars(\E s \in SocketIds : OnOpen(s))
    /\ WF_vars(\E s \in SocketIds : sockets[s].readyState = "CLOSING" /\ OnClose(s))

LiveSpec == Spec /\ Fairness

\* ---- properties ----------------------------------------------------------

NoTimersPending == \A i \in TimerIds : timers[i] = NoTimer

\* the session is between two attempts: its last transport has closed
SvcIdle == ws \in SocketIds /\ sockets[ws].readyState = "CLOSED"

\* C1: in MonitoringService, after any number N >= 1 of consecutive attempts
\* that each ended with the close event without opening, and without stop(),
\* the session is not connected and exactly one reconnect timer is pending,
\* the one the field reconnectTimer holds.
C1_ReconnectConvergence ==
    (running = "service" /\ ~stopped /\ failedAttempts >= 1 /\ SvcIdle)
        => /\ ~isConnected
           /\ Cardinality(Live("reconnect")) = 1
           /\ reconnectTimer \in Live("reconnect")

C1_Witness ==
    /\ running = "service" /\ ~stopped /\ SvcIdle
    /\ failedAttempts = MaxFailedAttempts
    /\ lastEvent = "close"
    /\ Cardinality(Live("reconnect")) = 1

\* C2 (as claimed): in MonitoringHandler every close handled before
\* disconnect() leaves exactly one reconnect timer pending, also the close of
\* an attempt that a fired reconnect timer started.
C2_CloseAlwaysReschedules ==
    (running = "handler" /\ hDisconnected = "no" /\ lastEvent = "close")
        => Cardinality(Live("reconnect")) = 1

\* C3: in every reachable state of either implementation at most one
\* reconnect timer is pending.
C3_AtMostOneReconnectTimer == Cardinality(Live("reconnect")) <= 1

C3_Witness ==
    /\ failedAttempts >= 2
    /\ lastEvent = "close"
    /\ Cardinality(Live("reconnect")) = 1

\* C4: once MonitoringService.stop() has been called, in whatever state, no
\* timer is pending, and from then on no timer becomes pending and no
\* transport starts connecting.
C4_StopIsTerminal ==
    [][stopped' =>
        /\ NoTimersPending'
        /\ ws' = 0
        /\ ~isConnected'
        /\ stopped => \A s \in SocketIds :
                        sockets'[s].readyState = "CONNECTING"
                            => sockets[s].readyState = "CONNECTING"]_vars

C4_Witness ==
    /\ stopped /\ lastEvent = "stop" /\ wasConnected
    /\ \E s \in SocketIds : sockets[s].readyState = "CLOSING"
    /\ NoTimersPending

\* C5 (as claimed): after MonitoringHandler.disconnect() was called while
\* connected and the close event it triggers has been handled, no reconnect
\* timer is pending and no transport is connecting.
C5_DisconnectIsTerminal ==
    (running = "handler" /\ hDisconnected = "connected"
        /\ hWs \in SocketIds /\ sockets[hWs].readyState # "CLOSING")
        => /\ Live("reconnect") = {}
           /\ sockets[hWs].readyState = "CLOSED"

\* C6: when MonitoringService has handled the open event, isConnected is
\* true, exactly one frame was transmitted and it is a status request
\* (command 0), and the keep-alive and the poll timer are both pending.
C6_OpenStartsSession ==
    (running = "service" /\ lastEvent = "open")
        => /\ isConnected
           /\ Len(sent) = 1
           /\ sent[1].shape = "envelope"
           /\ sent[1].Cmd = CmdStatus
           /\ keepAliveTimer \in Live("keepAlive")
           /\ pollTimer \in Live("poll")
           /\ Cardinality(Live("keepAlive")) = 1
           /\ Cardinality(Live("poll")) = 1

C6_Witness ==
    /\ running = "service" /\ lastEvent = "open"
    /\ isConnected /\ Len(sent) = 1
    /\ failedAttempts = 0

\* C7: when MonitoringService has handled the close event while connected,
\* isConnected is false, no keep-alive and no poll timer is pending and one
\* reconnect timer is pending with the configured delay; and a keep-alive or
\* poll timer is pending only while the current transport has opened and has
\* not closed, so the two stay cancelled until the next open event.
C7_CloseWhileConnected ==
    running = "service" =>
        /\ (lastEvent = "close" /\ wasConnected)
              => /\ ~isConnected
                 /\ Live("poll") = {} /\ Live("keepAlive") = {}
                 /\ pollTimer = 0 /\ keepAliveTimer = 0
                 /\ Cardinality(Live("reconnect")) = 1
                 /\ reconnectTimer \in Live("reconnect")
                 /\ timers[reconnectTimer].delay = config.reconnectInterval * 1000
        /\ (Live("poll") \cup Live("keepAlive") # {})
              => /\ ws \in SocketIds
                 /\ sockets[ws].opened
                 /\ sockets[ws].readyState \in {"OPEN", "CLOSING"}

C7_Witness ==
    /\ running = "service" /\ lastEvent = "close" /\ wasConnected
    /\ Live("poll") = {} /\ Live("keepAlive") = {}
    /\ Cardinality(Live("reconnect")) = 1

\* a step that handles a transport error event
ErrorStep == \E s \in SocketIds : OnError(s) \/ HOnError(s)

SvcConnected ==
    /\ isConnected
    /\ pollTimer \in Live("poll")
    /\ keepAliveTimer \in Live("keepAlive")

\* C9: in MonitoringService, with fair timers and transport events, if the
\* printer eventually accepts connections for good, then from every state in
\* which the session is not connected it becomes connected again with the
\* poll and keep-alive timers active, unless stop() is called.
C9_EventuallyReconnected ==
    (<>[]printerUp) =>
        ((running = "service" /\ ~stopped /\ ~isConnected)
            ~> (stopped \/ SvcConnected))

\* a transport created by a reconnect has opened (the first transport of a
\* session has handle 1)
C9_Witness ==
    /\ running = "service" /\ ~stopped
    /\ ws = 2 /\ lastEvent = "open"
    /\ SvcConnected

\* C10: an intent invoked on MonitoringService while there is no transport or
\* the transport is not open returns false, transmits nothing and leaves the
\* connection state, the request counter and all timers unchanged.
C10_IntentRejectedWhenNotOpen ==
    [][\A name \in Intents :
        (Intent(name) /\ ~IsOpen(sockets, ws))
            => /\ lastRet' = "false"
               /\ sent' = <<>>
               /\ UNCHANGED <<timers, sockets, ws, reconnectTimer, pollTimer,
                              keepAliveTimer, isConnected, requestId,
                              infoConnection, stopped>>]_vars

C10_Witness ==
    /\ running = "service" /\ lastEvent = "intent"
    /\ lastRet = "false" /\ sent = <<>>
    /\ ws \in SocketIds /\ sockets[ws].readyState = "CONNECTING"

\* C11: MonitoringService.stop() is idempotent. Called in any state it raises
\* no exception and leaves no transport, no pending timer and the connection
\* status false; called again after a stop() it changes nothing.
C11_StopIsIdempotent ==
    [][Stop =>
        /\ lastRet' # "throw"
        /\ ws' = 0
        /\ NoTimersPending'
        /\ ~isConnected'
        /\ ~infoConnection'
        /\ stopped => UNCHANGED <<timers, sockets, ws, reconnectTimer, pollTimer,
                                  keepAliveTimer, isConnected, infoConnection,
                                  requestId, stopped, tree>>]_vars

\* stop() has been called a second time
C11_Witness ==
    /\ running = "service" /\ stopped
    /\ lastEvent = "stopAgain"
    /\ ws = 0 /\ NoTimersPending /\ ~infoConnection

\* C12 (as claimed): a command that sendCommand has transmitted is held as a
\* pending request from the moment it is sent, so that a response can be
\* matched to it by request id whatever the order of the responses.
C12_SentCommandIsPending ==
    (running = "service" /\ lastEvent = "intent" /\ lastRet = "true")
        => sent[1].RequestID \in PendingRequests

\* C13: any two envelopes MonitoringService has transmitted carry different
\* RequestIDs, and the counter part of the id is strictly greater in the
\* envelope built later, also when the two were sent on different transports.
C13_RequestIdsUnique ==
    \A i, j \in 1..Len(sentIds) :
        i < j => /\ sentIds[i] # sentIds[j]
                 /\ sentIds[i][2] < sentIds[j][2]

\* three envelopes were sent, the last ones on a transport created by a
\* reconnect
C13_Witness ==
    /\ running = "service"
    /\ Len(sentIds) >= 3
    /\ ws = 2 /\ lastEvent = "intent" /\ lastRet = "true"

\* C14: a frame that is not valid JSON is dropped by the message handler of
\* either implementation: no exception escapes, and the connection state,
\* the timers, the transport and every value of the state tree stay as they
\* were. The valid frame that arrives next is handled as any valid frame.
C14_InvalidFrameDropped ==
    [][\A s \in SocketIds :
        /\ (OnMessage(s, InvalidFrame) \/ HOnMessage(s, InvalidFrame))
              => /\ lastRet' # "throw"
                 /\ handled'.status = 0 /\ handled'.response = "none"
                 /\ UNCHANGED <<running, timers, sockets, svcVars, hndVars,
                                infoConnection, tree, hInflight>>
        /\ \A frame \in SvcFrames :
              (handled.kind = "invalid" /\ frame.kind = "object" /\ OnMessage(s, frame))
                 => /\ handled'.kind = "object"
                    /\ \E now \in Timestamps :
                          tree' = handleMessage(tree, frame.msg, now).tree]_vars

\* an invalid frame was dropped on a connected service that has published
\* values before
C14_Witness ==
    /\ running = "service" /\ lastEvent = "message" /\ handled.kind = "invalid"
    /\ isConnected /\ infoConnection
    /\ pollTimer \in Live("poll") /\ keepAliveTimer \in Live("keepAlive")
    /\ tree["temperatures.nozzle.actual"] = 42570
    /\ tree["fans.auxiliary"] = 50

\* C15 (as claimed): every message the adapter transmits, a status poll as
\* much as a user command and whichever implementation sends it, is an
\* envelope {Id, Data: {Cmd, Data, RequestID, MainboardID, TimeStamp, From}}.
\* (The keep-alive ping is a control frame of the transport, not a message.)
C15_EveryMessageIsEnvelope ==
    \A i \in 1..Len(sent) :
        sent[i].shape # "ping"
            => /\ sent[i].shape = "envelope"
               /\ sent[i].Id = "" /\ sent[i].MainboardID = ""
               /\ sent[i].TimeStamp \in Timestamps
               /\ sent[i].RequestID[1] \in Timestamps
               /\ sent[i].From = 1

\* C16: in MonitoringService, when the poll timer fires while the session is
\* not connected or its transport is not open, nothing is transmitted and
\* the poll timer is cancelled; no poll timer is pending again until an open
\* event starts polling anew.
C16_PollSelfCancels ==
    [][running = "service" =>
        /\ \A id \in TimerIds :
              (PollFire(id) /\ ~(isConnected /\ IsOpen(sockets, ws)))
                 => /\ sent' = <<>>
                    /\ requestId' = requestId
                    /\ Live("poll")' = {}
                    /\ pollTimer' = 0
        /\ (Live("poll") = {} /\ Live("poll")' # {})
              => \E s \in SocketIds : OnOpen(s)]_vars

\* the poll timer fired after an error event and before the close event
C16_Witness ==
    /\ running = "service" /\ lastEvent = "pollFire"
    /\ ~isConnected /\ ~stopped
    /\ ws \in SocketIds /\ sockets[ws].readyState = "CLOSING"
    /\ Live("poll") = {} /\ pollTimer = 0
    /\ Live("keepAlive") # {}
    /\ sent = <<>>

\* C17 (as claimed): after every event handler, in either implementation,
\* the value last written to info.connection is true exactly when the
\* current transport has opened and has neither errored nor closed and the
\* session was not shut down (stop() or disconnect()).
C17_ConnectionStatusExact ==
    /\ running = "service" => (infoConnection <=> IsOpen(sockets, ws))
    /\ running = "handler"
          => (infoConnection <=> (IsOpen(sockets, hWs) /\ hDisconnected = "no"))

\* C18: for a frame handled by handleMessage, a Status block is applied to
\* the state tree whether or not the frame also carries Data.Cmd, and a
\* command response is handled whether or not the frame also carries a
\* Status; a frame with both gets both.
C18_BothBlocksHandled ==
    [][\A s \in SocketIds, frame \in SvcFrames :
        (frame.kind = "object" /\ OnMessage(s, frame))
            => /\ Has(frame.msg, "Status")
                    => /\ handled'.status >= 1
                       /\ \E now \in Timestamps :
                             tree' = setState(updatePrinterStatus(tree, frame.msg.Status),
                                              "info.lastUpdate", now)
               /\ (Has(frame.msg, "Data") /\ Has(frame.msg.Data, "Cmd"))
                    => /\ handled'.response = handleCommandResponse(frame.msg)
                       /\ handled'.response # "none"
               /\ (Has(frame.msg, "Status") /\ Has(frame.msg, "Data"))
                    => handled'.status >= 1 /\ handled'.response # "none"]_vars

\* the frame with the bed temperature 55.555 and the acknowledgement of the
\* pause command was handled: the temperature is published and the
\* acknowledgement was logged as a success
C18_Witness ==
    /\ running = "service" /\ lastEvent = "message"
    /\ handled.kind = "object" /\ handled.status = 1
    /\ handled.response = "Success"
    /\ tree["temperatures.bed.actual"] = 55560
    /\ tree["info.lastUpdate"] \in Timestamps

\* the member block.member is present in the status
SubMember(status, block, member) ==
    Has(status, block) /\ Has(status[block], member)

\* the status carries the member from which the state id is published
Supplies(status, id) ==
    CASE id = "temperatures.nozzle.actual" -> Has(status, "TempOfNozzle")
      [] id = "temperatures.bed.actual" -> Has(status, "TempOfHotbed")
      [] id = "temperatures.chamber.actual" -> Has(status, "TempOfBox")
      [] id = "temperatures.nozzle.target" -> Has(status, "TempTargetNozzle")
      [] id = "temperatures.bed.target" -> Has(status, "TempTargetHotbed")
      [] id = "temperatures.chamber.target" -> Has(status, "TempTargetBox")
      [] id = "fans.model" -> SubMember(status, "CurrentFanSpeed", "ModelFan")
      [] id = "fans.auxiliary" -> SubMember(status, "CurrentFanSpeed", "AuxiliaryFan")
      [] id = "fans.chamber" -> SubMember(status, "CurrentFanSpeed", "BoxFan")
      [] id \in {"print.status", "print.statusCode"} -> SubMember(status, "PrintInfo", "Status")
      [] id = "print.progress" -> SubMember(status, "PrintInfo", "Progress")
      [] id = "print.currentLayer" -> SubMember(status, "PrintInfo", "CurrentLayer")
      [] id = "print.totalLayers" -> SubMember(status, "PrintInfo", "TotalLayer")
      [] id = "print.speedPercentage" -> SubMember(status, "PrintInfo", "PrintSpeedPct")
      [] id = "print.filename" -> SubMember(status, "PrintInfo", "Filename")
      [] id = "print.totalTime" -> SubMember(status, "PrintInfo", "TotalTicks")
      [] id = "print.elapsedTime" -> SubMember(status, "PrintInfo", "CurrentTicks")
      [] id = "print.remainingTime" ->
            /\ SubMember(status, "PrintInfo", "TotalTicks")
            /\ SubMember(status, "PrintInfo", "CurrentTicks")
      [] id \in {"position.x", "position.y", "position.z"} -> Has(status, "CurrenCoord")
      [] id = "position.zOffset" -> Has(status, "ZOffset")
      [] id = "lights.chamber" -> SubMember(status, "LightStatus", "SecondLight")
      [] id \in {"lights.rgb.r", "lights.rgb.g", "lights.rgb.b"} ->
            SubMember(status, "LightStatus", "RgbLight")
      [] OTHER -> TRUE

\* C19 (as claimed): a status that does not supply a field leaves the value
\* published for it unchanged, also when the enclosing block is present and
\* only the sub-field is missing (CurrentFanSpeed without AuxiliaryFan,
\* PrintInfo without Progress or PrintSpeedPct); no field is reset to a
\* default.
C19_AbsentFieldRetained ==
    [][\A s \in SocketIds, frame \in SvcFrames :
        (frame.kind = "object" /\ Has(frame.msg, "Status") /\ OnMessage(s, frame))
            => \A id \in DOMAIN SvcDefaults :
                  ~Supplies(frame.msg.Status, id) => tree'[id] = tree[id]]_vars

\* the states published from one member or block of the status
GroupStates(member) ==
    CASE member = "TempOfNozzle" -> {"temperatures.nozzle.actual"}
      [] member = "TempOfHotbed" -> {"temperatures.bed.actual"}
      [] member = "TempOfBox" -> {"temperatures.chamber.actual"}
      [] member = "TempTargetNozzle" -> {"temperatures.nozzle.target"}
      [] member = "TempTargetHotbed" -> {"temperatures.bed.target"}
      [] member = "TempTargetBox" -> {"temperatures.chamber.target"}
      [] member = "CurrentFanSpeed" -> {"fans.model", "fans.auxiliary", "fans.chamber"}
      [] member = "PrintInfo" ->
            {"print.status", "print.statusCode", "print.progress",
             "print.currentLayer", "print.totalLayers", "print.speedPercentage",
             "print.filename", "print.totalTime", "print.elapsedTime",
             "print.remainingTime"}
      [] member = "CurrenCoord" -> {"position.x", "position.y", "position.z"}
      [] member = "ZOffset" -> {"position.zOffset"}
      [] member = "LightStatus" ->
            {"lights.chamber", "lights.rgb.r", "lights.rgb.g", "lights.rgb.b"}

StatusMembers ==
    {"TempOfNozzle", "TempOfHotbed", "TempOfBox", "TempTargetNozzle",
     "TempTargetHotbed", "TempTargetBox", "CurrentFanSpeed", "PrintInfo",
     "CurrenCoord", "ZOffset", "LightStatus"}

\* C20: in updatePrinterStatus a temperature member or a block that the
\* status does not carry causes no write to its states. A status with only
\* TempOfNozzle = 42.567 publishes temperatures.nozzle.actual = 42.57 and
\* changes nothing else but info.lastUpdate, and a status without
\* CurrentFanSpeed leaves the three fan values as they were.
C20_AbsentGroupNotWritten ==
    [][\A s \in SocketIds, frame \in SvcFrames :
        (frame.kind = "object" /\ Has(frame.msg, "Status") /\ OnMessage(s, frame))
            => /\ \A member \in StatusMembers :
                    ~Has(frame.msg.Status, member)
                        => \A id \in GroupStates(member) : tree'[id] = tree[id]
               /\ Has(frame.msg.Status, "TempOfNozzle")
                    => tree'["temperatures.nozzle.actual"]
                            = Round2(frame.msg.Status.TempOfNozzle)
               /\ frame.msg = [Status |-> [TempOfNozzle |-> 42567]]
                    => \E now \in Timestamps :
                          tree' = [tree EXCEPT !["temperatures.nozzle.actual"] = 42570,
                                               !["info.lastUpdate"] = now]]_vars

\* the status with only TempOfNozzle = 42.567 was handled after bed, chamber
\* and fan values had been published
C20_Witness ==
    /\ running = "service" /\ lastEvent = "message"
    /\ tree["temperatures.nozzle.actual"] = 42570
    /\ tree["temperatures.bed.actual"] = 60000
    /\ tree["temperatures.chamber.actual"] = 30000
    /\ tree["fans.model"] = 100 /\ tree["fans.auxiliary"] = 50
    /\ tree["fans.chamber"] = 30

\* the states that hold the DeviceState fields: every state of
\* MonitoringService but the time of the last update
DeviceStateIds == DOMAIN SvcDefaults \ {"info.lastUpdate"}

\* C21: a frame without a Status block, or with a Status block that has none
\* of the members updatePrinterStatus reads, changes no DeviceState field:
\* temperatures, fans, print job, position and lights are as before the
\* frame, whatever they were.
C21_NoStatusNoChange ==
    [][\A s \in SocketIds, frame \in SvcFrames :
        (/\ \/ frame.kind # "object"
            \/ ~Has(frame.msg, "Status")
            \/ DOMAIN frame.msg.Status \cap StatusMembers = {}
         /\ OnMessage(s, frame))
            => \A id \in DeviceStateIds : tree'[id] = tree[id]]_vars

\* the empty Status block was applied after temperatures, fans, print job,
\* position and lights had been published
C21_Witness ==
    /\ running = "service" /\ lastEvent = "message"
    /\ handled.kind = "object" /\ handled.status = 1
    /\ handled.members \cap StatusMembers = {}
    /\ tree["temperatures.nozzle.actual"] = 42570
    /\ tree["fans.model"] = 100
    /\ tree["print.progress"] = 42
    /\ tree["position.x"] = 10500
    /\ tree["lights.chamber"]

\* C22 (as claimed): no value written to the state tree by the status
\* handlers is undefined or null, also when the message omits the field.
\* Every write but one takes its value from `x || default`, a typeof guard or
\* a formatter; the one that does not is status.printStatusCode of
\* MonitoringHandler, so the claim is that this state never holds undefined.
C22_NoUndefinedWritten ==
    tree["status.printStatusCode"] # <<>>

\* C23 (as claimed): whenever a print-info block supplies both elapsed and
\* total seconds, elapsed = 0 included, the remaining time published is the
\* formatted value of max(0, total - elapsed).
C23_RemainingTimeClamped ==
    [][\A s \in SocketIds, frame \in SvcFrames :
        (/\ frame.kind = "object" /\ Has(frame.msg, "Status")
         /\ SubMember(frame.msg.Status, "PrintInfo", "CurrentTicks")
         /\ SubMember(frame.msg.Status, "PrintInfo", "TotalTicks")
         /\ OnMessage(s, frame))
            => LET total == frame.msg.Status.PrintInfo.TotalTicks
                   elapsed == frame.msg.Status.PrintInfo.CurrentTicks
               IN tree'["print.remainingTime"]
                    = formatTime(IF total - elapsed > 0 THEN total - elapsed ELSE 0)]_vars

\* n as two digits, with a leading zero below ten
TwoDigits(n) == IF n < 10 THEN "0" \o ToString(n) ELSE ToString(n)

\* C24 (as claimed): for every integer s >= 0 the time formatter returns
\* HH:MM:SS with HH = floor(s/3600), MM = floor((s mod 3600)/60) and
\* SS = s mod 60, each zero-padded (3661 gives 01:01:01), and for every
\* negative or non-numeric input it returns 00:00:00. Stated for formatTime
\* and for formatSeconds.
C24_FormatterTotal ==
    formatted # NoFormat =>
        LET s == formatted.arg.v
            expected ==
                IF formatted.arg.t = "number" /\ s >= 0
                THEN TwoDigits(s \div 3600) \o ":" \o TwoDigits((s % 3600) \div 60)
                        \o ":" \o TwoDigits(s % 60)
                ELSE "00:00:00"
        IN /\ formatted.time = expected
           /\ formatted.seconds = expected
           /\ formatted.arg = JsNumber(3661) => formatted.time = "01:01:01"

\* CurrenCoord is a string of exactly three comma-separated numeric tokens
WellFormedCoord(coord) ==
    Len(coord) = 3 /\ \A k \in 1..3 : coord[k].num # <<>>

\* C25 (as claimed): a CurrenCoord that is not a string of exactly three
\* comma-separated numeric tokens writes none of position.x, position.y and
\* position.z, and the ZOffset and LightStatus of the same Status block are
\* still written.
C25_MalformedCoordSkipped ==
    [][\A s \in SocketIds, frame \in SvcFrames :
        (/\ frame.kind = "object" /\ Has(frame.msg, "Status")
         /\ Has(frame.msg.Status, "CurrenCoord")
         /\ ~WellFormedCoord(frame.msg.Status.CurrenCoord)
         /\ OnMessage(s, frame))
            => /\ \A id \in {"position.x", "position.y", "position.z"} :
                    tree'[id] = tree[id]
               /\ Has(frame.msg.Status, "ZOffset")
                    => tree'["position.zOffset"] = Round4(frame.msg.Status.ZOffset)
               /\ Has(frame.msg.Status, "LightStatus")
                    => tree'["lights.chamber"]
                        = (OrDefault(frame.msg.Status.LightStatus, "SecondLight", 0) # 0)]_vars

\* the suspended call has already made its write to the state id
HasWritten(call, id) ==
    \E k \in 1..(call.next - 1) : call.writes[k].id = id

\* C26 (as claimed): inbound frames take effect in arrival order. A write of
\* the call for an earlier frame never lands after the write a call for a
\* later frame has made to the same state, and once every call has completed
\* each state written for the frame that arrived last holds that frame's
\* value, whatever order the awaited writes complete in.
C26_ArrivalOrder ==
    [][/\ \A i \in 1..Len(hInflight) :
            HResume(i) =>
                ~\E j \in (i + 1)..Len(hInflight) :
                    HasWritten(hInflight[j], hInflight[i].writes[hInflight[i].next].id)
       /\ (running' = "handler" /\ hInflight' = <<>> /\ hArrived' # <<>>)
            => LET w == StatusWrites(hArrived'[1])
               IN \A k \in 1..Len(w) : tree'[w[k].id] = w[k].val]_vars

\* C28: a keep-alive timer firing changes neither the connection state nor
\* the transport and schedules no reconnect, whether the probe was sent or
\* the transport was found not open; the steps that take a running session
\* out of Connected are the error and close events of the transport, and the
\* shutdown by stop().
C28_KeepAliveKeepsState ==
    [][/\ \A id \in TimerIds :
            KeepAliveFire(id) =>
                /\ UNCHANGED <<isConnected, infoConnection, ws, sockets, reconnectTimer>>
                /\ Live("reconnect")' = Live("reconnect")
       /\ (running = "service" /\ isConnected /\ ~isConnected')
            => \/ \E s \in SocketIds : OnError(s) \/ OnClose(s)
               \/ Stop]_vars

\* the keep-alive timer fired while the transport was closing after an
\* error: no probe was sent, the timer is gone and no reconnect is scheduled
C28_Witness ==
    /\ running = "service" /\ lastEvent = "keepAliveFire"
    /\ ws # 0 /\ sockets[ws].readyState = "CLOSING"
    /\ sent = <<>>
    /\ Live("keepAlive") = {} /\ Live("reconnect") = {}

\* C27 (as claimed): no intent invocation raises an exception to its caller:
\* for every command name and every value, the free-text 'command' intent
\* included, ControlHandler.handleCommand returns normally, in every
\* connection state.
C27_IntentNeverThrows ==
    (running = "handler" /\ lastEvent = "stateChange") => lastRet # "throw"

\* the commands for which handleCommand has a case, and the controls for
\* which onStateChange of src/unnamed/part_002 has one
MappedCommands == {"targetNozzleTemp", "targetBedTemp", "command"}
MappedControls ==
    {"controls.pause", "controls.resume", "controls.cancel", "controls.light",
     "controls.refresh"}

\* C29: an intent whose name is not one of the mapped intents transmits
\* nothing to the printer and changes no session state, whatever the state of
\* the connection: ControlHandler builds no command for it and does not
\* throw, and the adapter of MonitoringService only acknowledges the value.
C29_UnmappedIntentIsNoOp ==
    [][/\ \A change \in HndChanges :
            (/\ change.present /\ ~change.ack
             /\ LastSegment(change.id) \notin MappedCommands
             /\ lastEvent' = "stateChange"
             /\ HStateChange(change))
                => /\ sent' = <<>> /\ lastRet' = "none"
                   /\ UNCHANGED <<timers, sockets, hndVars, infoConnection, sentIds>>
       /\ \A change \in SvcChanges :
            (/\ change.present /\ ~change.ack
             /\ change.id \notin MappedControls
             /\ lastEvent' = "stateChange"
             /\ SvcStateChange(change))
                => /\ sent' = <<>>
                   /\ UNCHANGED <<timers, sockets, svcVars, infoConnection, sentIds>>
                   /\ stateChanged'.write = <<[id |-> change.id, val |-> change.val]>>]_vars

\* control.printSpeed, for which ControlHandler has no case, was written
\* while the transport of MonitoringHandler was open
C29_Witness ==
    /\ running = "handler" /\ lastEvent = "stateChange"
    /\ stateChanged.change.id = "control.printSpeed"
    /\ stateChanged.change.present /\ ~stateChanged.change.ack
    /\ IsOpen(sockets, hWs)
    /\ sent = <<>>

\* C30: a state change with ack = true causes no command to be sent and no
\* further write, in either adapter; each acknowledged write the adapter
\* makes after handling a user write is itself such a change, and a user
\* write transmits at most one command.
C30_AckNeverSends ==
    [][/\ \A change \in SvcChanges \cup HndChanges :
            (/\ change.ack /\ lastEvent' = "stateChange"
             /\ SvcStateChange(change) \/ HStateChange(change))
                => /\ sent' = <<>> /\ stateChanged'.write = <<>>
                   /\ UNCHANGED <<requestId, sentIds>>
       /\ lastEvent' = "stateChange"
            => /\ Len(sent') <= 1
               /\ \A k \in 1..Len(stateChanged'.write) :
                    Change(stateChanged'.write[k].id, TRUE, stateChanged'.write[k].val, TRUE)
                        \in SvcChanges]_vars

\* the acknowledged change of controls.pause to false, which the adapter
\* writes after a pause, arrived on a connected session after the pause
\* command had been transmitted: nothing was sent for it
C30_Witness ==
    /\ running = "service" /\ lastEvent = "stateChange"
    /\ stateChanged.change = Change("controls.pause", TRUE, JsValue("boolean", "false"), TRUE)
    /\ isConnected /\ IsOpen(sockets, ws)
    /\ Len(sentIds) >= 2
    /\ sent = <<>>

\* C35 (as claimed): for every inbound frame, handleMessage applies the
\* Status block of the frame to the device state at most once, also when the
\* frame carries a Topic that contains 'sdcp/status/'.
C35_StatusAppliedOnce ==
    (running = "service" /\ lastEvent = "message") => handled.status <= 1

\* C32 (as claimed): once MonitoringService.stop() has returned, no transport
\* created by the session is open or still connecting; a transport that was
\* connecting when stop() was called has been closed.
C32_StopClosesEveryTransport ==
    (running = "service" /\ stopped) =>
        \A s \in SocketIds : sockets[s].readyState \notin {"CONNECTING", "OPEN"}

\* C34: in every reachable state at most one poll timer and at most one
\* keep-alive timer are pending, and a pending one is the timer the field of
\* the session refers to: no replaced timer keeps firing.
C34_OneTimerEach ==
    /\ Cardinality(Live("poll")) <= 1
    /\ Cardinality(Live("keepAlive")) <= 1
    /\ running = "service" =>
         /\ Live("poll") \subseteq {pollTimer}
         /\ Live("keepAlive") \subseteq {keepAliveTimer}
    /\ running = "handler" =>
         /\ Live("poll") \subseteq {hPollTimer}
         /\ Live("keepAlive") = {}

\* a later open event of the service (a request was transmitted before it)
\* after which both timers are pending and held by the fields
C34_Witness ==
    /\ running = "service"
    /\ lastEvent = "open"
    /\ Len(sentIds) >= 2
    /\ Live("poll") = {pollTimer}
    /\ Live("keepAlive") = {keepAliveTimer}

\* the transports created by the session that are connecting or open
ActiveTransports == {s \in SocketIds : sockets[s].readyState \in {"CONNECTING", "OPEN"}}

\* an event of the transport s, which the session no longer refers to, is
\* delivered to the listeners the session attached to it
ReplacedEvent(s) ==
    /\ lastEvent' \in {"open", "error", "close"}
    /\ \/ /\ running = "service"
          /\ s # ws
          /\ OnOpen(s) \/ OnError(s) \/ OnClose(s)
       \/ /\ running = "handler"
          /\ s # hWs
          /\ HOnOpen(s) \/ HOnError(s) \/ HOnClose(s)

\* C33 (as claimed): calling connect() or start() while a connection attempt
\* is in progress creates no second transport: at most one transport of the
\* session is connecting or open in every reachable state, and an event of a
\* replaced transport changes neither the state of the session nor its timers.
C33_SingleTransport ==
    /\ [](Cardinality(ActiveTransports) <= 1)
    /\ [][\A s \in SocketIds :
            ReplacedEvent(s) =>
                UNCHANGED <<isConnected, infoConnection, requestId, timers,
                            reconnectTimer, pollTimer, keepAliveTimer, hPollTimer,
                            hReconnectTimer>>]_vars

\* C31 (as claimed): no command or status request is transmitted while
\* isConnected is false: every step of the service that transmits an envelope
\* does so with the connected flag of the session true.
C31_SendsOnlyWhenConnected ==
    [][(running = "service" /\ \E i \in 1..Len(sent') : IsEnvelope(sent'[i]))
            => isConnected']_vars

====
